------------------------------ MODULE Analysis ------------------------------
(***************************************************************************)
(* The workflows of orchestration/orchestrator.py that analyse what they   *)
(* are given: a bid, a conversation or a market; the proposals that are    *)
(* uploaded or loaded; and the account of what runs cost.  Each is one     *)
(* workflow by its own agents; they share the profiles and the LLM service *)
(* only, so a behaviour is one request of one kind, or the accounts of     *)
(* runs at the same time, whatever their agents do.                        *)
(***************************************************************************)
EXTENDS Bid, Deal, Research, Upload, BulkLoad, Ledger

AnalysisInit == BidInit /\ DealInit /\ ResearchInit /\ UploadInit /\ LoadInit /\ LedgerInit

NoBid == request = {} /\ mishaps = 0
NoDeal == talk = {}
NoResearch == stage = "idle"
NoUpload == upload = << >>
NoLoad == export = << >>
NoLedger == context = << >> /\ \A w \in Workflows : phase[w] = "idle"

BidStep == /\ NoDeal /\ NoResearch /\ NoUpload /\ NoLoad /\ NoLedger /\ BidNext
           /\ UNCHANGED <<dealVars, researchVars, uploadVars, loadVars, ledgerVars>>

DealStep == /\ NoBid /\ NoResearch /\ NoUpload /\ NoLoad /\ NoLedger /\ DealNext
            /\ UNCHANGED <<bidVars, researchVars, uploadVars, loadVars, ledgerVars>>

ResearchStep == /\ NoBid /\ NoDeal /\ NoUpload /\ NoLoad /\ NoLedger /\ ResearchNext
                /\ UNCHANGED <<bidVars, dealVars, uploadVars, loadVars, ledgerVars>>

UploadStep == /\ NoBid /\ NoDeal /\ NoResearch /\ NoLoad /\ NoLedger /\ UploadNext
              /\ UNCHANGED <<bidVars, dealVars, researchVars, loadVars, ledgerVars>>

LoadStep == /\ NoBid /\ NoDeal /\ NoResearch /\ NoUpload /\ NoLedger /\ LoadNext
            /\ UNCHANGED <<bidVars, dealVars, researchVars, uploadVars, ledgerVars>>

LedgerStep == /\ NoBid /\ NoDeal /\ NoResearch /\ NoUpload /\ NoLoad /\ LedgerNext
              /\ UNCHANGED <<bidVars, dealVars, researchVars, uploadVars, loadVars>>

AnalysisNext == BidStep \/ DealStep \/ ResearchStep \/ UploadStep \/ LoadStep \/ LedgerStep

AnalysisSpec == AnalysisInit /\
                [][AnalysisNext]_<<bidVars, dealVars, researchVars, uploadVars, loadVars, ledgerVars>>
=============================================================================
