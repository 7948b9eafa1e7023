---------------------------- MODULE OrderedWrites ----------------------------
(***************************************************************************)
(* What the Firestore client promises of the writes of one device: every   *)
(* user has a durable line of writes; the server applies the line of the   *)
(* signed-in user from its head, again from the head after a disturbance;  *)
(* only the head leaves the line, when the server applied it or when it is *)
(* given up with an error.                                                 *)
(***************************************************************************)
EXTENDS Naturals, Sequences

CONSTANTS User, MaxWrites

VARIABLES user,      \* who is signed in
          pending,   \* [User -> Seq(Write)]: the lines
          cursor,    \* how many writes of user's line this attempt has applied
          server,    \* [User -> Write or 0]: the latest write applied
          reported   \* [Write -> what its caller was told]

vars == <<user, pending, cursor, server, reported>>

Write == 1..MaxWrites
Outcome == {"nothing", "success", "error"}

Init ==
    /\ user \in User
    /\ pending = [u \in User |-> <<>>]
    /\ cursor = 0
    /\ server = [u \in User |-> 0]
    /\ reported = [w \in Write |-> "nothing"]

Issue(w) ==
    /\ pending' = [pending EXCEPT ![user] = Append(@, w)]
    /\ UNCHANGED <<user, cursor, server, reported>>

Apply ==
    /\ cursor < Len(pending[user])
    /\ cursor' = cursor + 1
    /\ server' = [server EXCEPT ![user] = pending[user][cursor + 1]]
    /\ UNCHANGED <<user, pending, reported>>

\* A caller that went down with its process is told nothing.
Tell(w, outcome) ==
    \/ reported' = [reported EXCEPT ![w] = outcome]
    \/ reported' = reported

Succeed ==
    /\ cursor > 0 /\ pending[user] # <<>>
    /\ pending' = [pending EXCEPT ![user] = Tail(@)]
    /\ cursor' = cursor - 1
    /\ Tell(Head(pending[user]), "success")
    /\ UNCHANGED <<user, server>>

Fail ==
    /\ pending[user] # <<>>
    /\ pending' = [pending EXCEPT ![user] = Tail(@)]
    /\ cursor' = 0
    /\ Tell(Head(pending[user]), "error")
    /\ UNCHANGED <<user, server>>

\* The connection, the network or the process goes; in the last case the caller
\* of the head may just have been told.
Retry ==
    /\ cursor' = 0
    /\ \/ reported' = reported
       \/ /\ cursor > 0 /\ pending[user] # <<>>
          /\ reported' = [reported EXCEPT ![Head(pending[user])] = "success"]
    /\ UNCHANGED <<user, pending, server>>

SignIn(u) ==
    /\ user' = u
    /\ cursor' = 0
    /\ UNCHANGED <<pending, server, reported>>

Next ==
    \/ \E w \in Write : Issue(w)
    \/ Apply \/ Succeed \/ Fail \/ Retry
    \/ \E u \in User : SignIn(u)

Spec == Init /\ [][Next]_vars
=============================================================================
