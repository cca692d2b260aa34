------------------------------- MODULE Lease --------------------------------
(***************************************************************************)
(* What the in-flight table of the broker promises, without its log, its   *)
(* polling calls and its objects: at any time a message is leased to at    *)
(* most one instance of one group; a lease runs for exactly the visibility *)
(* timeout, is neither extended nor handed over, and can be given up early *)
(* but granted anew only once it has ended.  A running lease can lose its  *)
(* holder: an administrator's resend takes the names off it, and then      *)
(* nobody can settle it.                                                   *)
(***************************************************************************)
EXTENDS Integers

CONSTANTS Msg, Group, Instance, NoGroup, NoInstance, Nobody, Duration

VARIABLES now, lease

vars == <<now, lease>>

Running(m, at) == lease[m] # Nobody /\ lease[m].until > at

Init == /\ now = 0
        /\ lease = [m \in Msg |-> Nobody]

\* Time passes, and with it the leases whose time is up.
Tick == /\ now' = now + 1
        /\ lease' = [m \in Msg |-> IF Running(m, now') THEN lease[m] ELSE Nobody]

Grant(m, g, i) ==
    /\ lease[m] = Nobody
    /\ lease' = [lease EXCEPT ![m] =
                   [group |-> g, inst |-> i, until |-> now + Duration]]
    /\ UNCHANGED now

\* The holder acknowledges or rejects, or the administrator takes the
\* message back.
Settle(m) == /\ lease' = [lease EXCEPT ![m] = Nobody]
             /\ UNCHANGED now

\* The administrator's resend removes the group's or the instance's name; the
\* lease goes on.
Disown(m) ==
    /\ lease[m] # Nobody
    /\ \/ lease' = [lease EXCEPT ![m].group = NoGroup]
       \/ lease' = [lease EXCEPT ![m].inst = NoInstance]
    /\ UNCHANGED now

\* The instance is taken for dead and loses all its leases at once.
Evict(i) ==
    /\ lease' = [m \in Msg |-> IF lease[m] # Nobody /\ lease[m].inst = i
                               THEN Nobody ELSE lease[m]]
    /\ UNCHANGED now

\* The broker restarts and forgets every lease.
Forget == /\ lease' = [m \in Msg |-> Nobody]
          /\ UNCHANGED now

Next == \/ Tick
        \/ \E m \in Msg : Settle(m) \/ Disown(m) \/ \E g \in Group, i \in Instance : Grant(m, g, i)
        \/ \E i \in Instance : Evict(i)
        \/ Forget

Spec == Init /\ [][Next]_vars

=============================================================================
