------------------------------ MODULE Coalescing ------------------------------
(***************************************************************************)
(* What the two single flights of the program promise, said without their  *)
(* locks, counts and callbacks: clients that ask for the same resource     *)
(* share a flight.                                                         *)
(*                                                                         *)
(* A flight is launched only while no other for its resource can be        *)
(* joined.  It lands with a result, or is dropped, which only may happen   *)
(* when everybody who waits for it has left; work that was dropped may     *)
(* still land.  A client joins a flight that is open or has succeeded and  *)
(* is answered once: with the result of its flight, or as cancelled if it  *)
(* has left itself.  A client that is not with a flight may be answered by *)
(* other means: from a cache, by work of its own.  Any client may be       *)
(* refused, which is told apart from a failure.                            *)
(***************************************************************************)
EXTENDS Naturals

CONSTANTS Clients, Flights, Resource, NoFlight

VARIABLES
  flight,   \* what has become of each flight
  member,   \* the flight each client waits with
  left,     \* clients that are gone
  reply, times   \* the answer of a client, and how often it was answered

vars == <<flight, member, left, reply, times>>

Init ==
  /\ flight = [f \in Flights |-> "unused"]
  /\ member = [c \in Clients |-> NoFlight]
  /\ left = {}
  /\ reply = [c \in Clients |-> "none"] /\ times = [c \in Clients |-> 0]

(* Nobody but clients in S, and clients that have left, waits with f.       *)
UnwantedBut(f, S) == \A c \in Clients \ S : member[c] = f => c \in left

Launch(f) ==
  /\ flight[f] = "unused"
  /\ \A g \in Flights : Resource[g] = Resource[f] => flight[g] # "open"
  /\ flight' = [flight EXCEPT ![f] = "open"]
  /\ \/ UNCHANGED member
     \/ \E c \in Clients : /\ member[c] = NoFlight /\ times[c] = 0
                           /\ member' = [member EXCEPT ![c] = f]
  /\ UNCHANGED <<left, reply, times>>

Join(c, f) ==
  /\ times[c] = 0 /\ member[c] = NoFlight
  /\ flight[f] \in {"open", "ok"}
  /\ member' = [member EXCEPT ![c] = f]
  /\ UNCHANGED <<flight, left, reply, times>>

Land(f, r) ==
  /\ flight[f] \in {"open", "dropped"}
  /\ flight' = [flight EXCEPT ![f] = r]
  /\ UNCHANGED <<member, left, reply, times>>

Drop(f) ==
  /\ flight[f] = "open" /\ UnwantedBut(f, {})
  /\ flight' = [flight EXCEPT ![f] = "dropped"]
  /\ UNCHANGED <<member, left, reply, times>>

Leave(c) ==
  /\ left' = left \cup {c}
  /\ UNCHANGED <<flight, member, reply, times>>

(* A client that has left is taken off its flight, which may end with that. *)
Withdraw(c) ==
  /\ c \in left /\ member[c] # NoFlight
  /\ member' = [member EXCEPT ![c] = NoFlight]
  /\ \/ UNCHANGED flight
     \/ /\ flight[member[c]] = "open" /\ UnwantedBut(member[c], {c})
        /\ flight' = [flight EXCEPT ![member[c]] = "dropped"]
  /\ UNCHANGED <<left, reply, times>>

Answer(c, a) ==
  /\ times[c] = 0
  /\ \/ a = "cancelled" /\ c \in left
     \/ a \in {"ok", "fail"} /\ member[c] # NoFlight /\ flight[member[c]] = a
     \/ a \in {"ok", "fail"} /\ member[c] = NoFlight
     \/ a = "refused"
  /\ reply' = [reply EXCEPT ![c] = a]
  /\ times' = [times EXCEPT ![c] = 1]
  /\ member' = [member EXCEPT ![c] = NoFlight]
  /\ UNCHANGED <<flight, left>>

Next ==
  \/ \E f \in Flights :
       Launch(f) \/ Drop(f) \/ \E r \in {"ok", "fail"} : Land(f, r)
  \/ \E c \in Clients :
       \/ Leave(c) \/ Withdraw(c)
       \/ \E f \in Flights : Join(c, f)
       \/ \E a \in {"ok", "fail", "cancelled", "refused"} : Answer(c, a)

Spec == Init /\ [][Next]_vars
===============================================================================
