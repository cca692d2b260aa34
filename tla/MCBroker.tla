------------------------------ MODULE MCBroker ------------------------------
(***************************************************************************)
(* Values of the broker's constants for TLC.                               *)
(***************************************************************************)
EXTENDS BrokerProperties, TLC

CONSTANTS m1, m2, g1, i1, i2, c1, c2

\* Who calls Consume: two instances of a group, or two calls of one instance.
OneGroup == [c \in Client |-> g1]
TwoInstances == (c1 :> i1) @@ (c2 :> i2)
OneInstance == [c \in Client |-> i1]

\* An administrator's request can name any offset, also one no record has.
AnyOffsets == -1 .. MaxLog + 1

\* Addresses are interchangeable, and so are the two clients together with the
\* instances they call for.
Addresses == Permutations(Obj)

Exchange(S) == {[x \in S |-> x],
                [x \in S |-> CASE x = c1 -> c2 [] x = c2 -> c1
                               [] x = i1 -> i2 [] x = i2 -> i1]}

PeerClients == {p @@ q : p \in Addresses, q \in Exchange({c1, c2})}
PeerInstances == {p @@ q : p \in Addresses, q \in Exchange({c1, c2, i1, i2})}

=============================================================================
