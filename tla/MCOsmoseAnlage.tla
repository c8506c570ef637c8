--------------------------- MODULE MCOsmoseAnlage ---------------------------
(* Instances of OsmoseAnlage for TLC: limits of a few seconds.             *)
EXTENDS OsmoseAnlage

Einstellung(modus, refill, osmose, clean, zyklus) ==
    [osmoseModus |-> modus, refillFaillTime |-> refill, osmoseFailTime |-> osmose,
     runtimeForCleaning |-> clean, osmoseRuntimeToClean |-> zyklus]

\* A run of 5 s has time for a flush, a cycle and a second flush.
AutomatikConfig == {Einstellung("modus_automatik", 2, 5, 2, 2)}

KurzConfig == {Einstellung("modus_automatik", 2, 2, 2, 2)}

\* Clients change the modus.  The refill limit of a second makes a refill
\* that is still on in the next pass a fault.
Wechsel == {Einstellung("modus_automatik", 1, 2, 2, 2),
            Einstellung("modus_manuel", 2, 2, 2, 2)}

\* The smallest "Zyklus Clean" the setup page accepts.
ZyklusEins == {Einstellung("modus_automatik", 2, 2, 2, 1)}
=============================================================================
