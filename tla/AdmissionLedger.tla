--------------------------- MODULE AdmissionLedger ---------------------------
(***************************************************************************)
(* What a build of one structure promises, seen from outside.              *)
(*                                                                         *)
(* A proposal (the declarations as they stand) is under consideration or   *)
(* none is.  An admission replaces the standing system by the proposal in  *)
(* one step; a refusal leaves the standing system exactly as it was, "as   *)
(* though the proposal had not been made" (diagnostics/determination.py).  *)
(* Build implements this module with the attestation as the standing       *)
(* system.                                                                 *)
(***************************************************************************)
CONSTANTS Proposal,   \* the declarations a build may be asked to admit
          Nothing     \* the standing system before anything was admitted

VARIABLES standing,     \* the system that was last admitted
          considering,  \* a proposal is under consideration
          proposal      \* the proposal considered last, once it was read

ledgerVars == <<standing, considering, proposal>>

LedgerTypeOK ==
  /\ standing \in Proposal \union {Nothing}
  /\ considering \in BOOLEAN
  /\ proposal \in Proposal \union {Nothing}

LedgerInit ==
  /\ standing = Nothing
  /\ considering = FALSE
  /\ proposal = Nothing

\* A build is started; it has read nothing yet.
Open ==
  /\ ~considering
  /\ considering' = TRUE
  /\ proposal' = Nothing
  /\ UNCHANGED standing

\* The declarations are read, once: what is admitted is what was read.
Read(p) ==
  /\ considering
  /\ proposal = Nothing
  /\ proposal' = p
  /\ UNCHANGED <<standing, considering>>

\* The proposal read becomes the standing system.
Admit ==
  /\ considering
  /\ proposal # Nothing
  /\ standing' = proposal
  /\ UNCHANGED <<considering, proposal>>

\* The consideration ends.  Nothing stands that did not stand before.
Close ==
  /\ considering
  /\ considering' = FALSE
  /\ UNCHANGED <<standing, proposal>>

LedgerNext ==
  \/ Open
  \/ \E p \in Proposal : Read(p)
  \/ Admit
  \/ Close

LedgerSpec == LedgerInit /\ [][LedgerNext]_ledgerVars
==============================================================================
