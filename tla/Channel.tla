------------------------------ MODULE Channel -------------------------------
(***************************************************************************)
(* What one direction of a connection promises to the loops on its ends:   *)
(* packages arrive whole, once and in the order in which they were handed  *)
(* over, several of them at a time if need be.  As soon as a package had   *)
(* to wait for the kernel the promise is void: the bytes that arrive may   *)
(* be anything from then on.                                               *)
(***************************************************************************)
EXTENDS Naturals, Sequences

CONSTANT Packages

VARIABLES
    sent,       \* packages handed over
    got,        \* packages delivered
    waited,     \* some package had to wait for the kernel
    whole       \* nothing that arrived was damaged

chanVars == <<sent, got, waited, whole>>

Init == sent = <<>> /\ got = <<>> /\ waited = FALSE /\ whole = TRUE

\* A package is handed over, and is taken at once or has to wait.
Send(p) ==
    /\ sent' = Append(sent, p)
    /\ waited' \in {waited, TRUE}
    /\ UNCHANGED <<got, whole>>

\* The next packages arrive.
Receive(n) ==
    /\ whole /\ n \in Len(got) + 1 .. Len(sent)
    /\ got' = SubSeq(sent, 1, n)
    /\ UNCHANGED <<sent, waited, whole>>

\* Damaged bytes arrive, possibly after undamaged packages.
Damage(n) ==
    /\ whole /\ waited /\ n \in Len(got) .. Len(sent)
    /\ got' = SubSeq(sent, 1, n)
    /\ whole' = FALSE
    /\ UNCHANGED <<sent, waited>>

Next ==
    \/ \E p \in Packages : Send(p)
    \/ \E n \in 0 .. Len(sent) : Receive(n) \/ Damage(n)

Spec == Init /\ [][Next]_chanVars
=============================================================================
