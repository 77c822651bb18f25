----------------------------- MODULE MCInference -----------------------------
(* Instance of Inference for TLC: two slots share a credential, and the first *)
(* is tried twice.                                                           *)
EXTENDS Inference

CONSTANTS m1, m2, k1

Slot(model, credential, attempts) ==
    [model |-> model, credential |-> credential, attempts |-> attempts]

MCSlots == <<Slot(m1, k1, 2), Slot(m2, k1, 1)>>
=============================================================================
