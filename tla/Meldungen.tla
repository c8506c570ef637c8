------------------------------ MODULE Meldungen ------------------------------
(***************************************************************************)
(* What the plant tells the rest of the program through the message bus:   *)
(* an abstract specification of the messages of stateMachineOsmose and     *)
(* stateMachineRefill.  A production run (lauf) and a refill begin with a  *)
(* message, and end with one or silently.  OsmoseAnlage implements this    *)
(* module; Statistik builds on it.                                         *)
(***************************************************************************)
EXTENDS Integers, Sequences

VARIABLES
    lauf,       \* a production run is on: sclean, sposmose or sosmose
    refill,     \* a refill is on: refill_on
    gemeldet,   \* sendErrorMailRefill
    messages    \* the commands on the bus that are not delivered yet

anlage == <<lauf, refill, gemeldet>>

Melden(command) == messages' = Append(messages, command)

Init ==
    /\ lauf = FALSE /\ refill = FALSE /\ gemeldet = FALSE
    /\ messages = <<>>

LaufBeginnt ==
    /\ ~lauf /\ lauf' = TRUE
    /\ Melden("setStartProductionOsmose")
    /\ UNCHANGED <<refill, gemeldet>>

LaufEndet ==
    /\ lauf /\ lauf' = FALSE
    /\ Melden("setEndProductionOsmose")
    /\ UNCHANGED <<refill, gemeldet>>

(* A fault, the housing switch, or a tank that is full before any water    *)
(* was produced: nothing is sent.                                          *)
LaufAbgebrochen ==
    /\ lauf /\ lauf' = FALSE
    /\ UNCHANGED <<refill, gemeldet, messages>>

RefillBeginnt ==
    /\ ~refill /\ ~lauf /\ refill' = TRUE
    /\ Melden("setStartRefill")
    /\ UNCHANGED <<lauf, gemeldet>>

RefillEndet ==
    /\ refill /\ ~lauf /\ refill' = FALSE
    /\ Melden("setEndRefill")
    /\ UNCHANGED <<lauf, gemeldet>>

RefillAbgebrochen ==
    /\ refill /\ refill' = FALSE
    /\ UNCHANGED <<lauf, gemeldet, messages>>

(* The time limit is sent as the end of a production run.                  *)
RefillZeitlimit ==
    /\ ~lauf /\ refill' = FALSE
    /\ ~gemeldet /\ gemeldet' = TRUE
    /\ Melden("setEndProductionOsmose")
    /\ UNCHANGED lauf

MeldungReset ==
    /\ ~lauf /\ gemeldet' = FALSE
    /\ UNCHANGED <<lauf, refill, messages>>

(* notify delivers some of the messages, the oldest first.                 *)
Zustellen ==
    /\ \E n \in 1 .. Len(messages) : messages' = SubSeq(messages, n + 1, Len(messages))
    /\ UNCHANGED anlage

Next ==
    \/ LaufBeginnt \/ LaufEndet \/ LaufAbgebrochen
    \/ RefillBeginnt \/ RefillEndet \/ RefillAbgebrochen \/ RefillZeitlimit
    \/ MeldungReset
    \/ Zustellen

Spec == Init /\ [][Next]_<<anlage, messages>>

=============================================================================
