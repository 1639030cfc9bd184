------------------------------ MODULE MCAccount ------------------------------
(***************************************************************************)
(* What the server keeps for one account: its sessions, its activation,    *)
(* its resume files and its exports, one of them at a time.  They have no  *)
(* row in common but the user's, whose end each module has as an action of *)
(* its own.  A behaviour is one of the part it starts on.                  *)
(*                                                                         *)
(* The configuration gives sets of different parts the same values, so     *)
(* that one permutation of them serves every part.                         *)
(***************************************************************************)
EXTENDS Sessions, Accounts, Resumes, Exports, TLC

VARIABLE part

Parts == {"sessions", "activation", "resumes", "exports"}

PartsInit ==
  /\ part \in Parts
  /\ SessionsInit /\ AccountInit /\ ResumeInit /\ ExportInit

OnPart(p) ==
  /\ part = p
  /\ UNCHANGED part
  /\ IF p = "sessions" THEN TRUE ELSE UNCHANGED sessionsVars
  /\ IF p = "activation" THEN TRUE ELSE UNCHANGED accountVars
  /\ IF p = "resumes" THEN TRUE ELSE UNCHANGED resumeVars
  /\ IF p = "exports" THEN TRUE ELSE UNCHANGED exportVars

PartsNext ==
  \/ OnPart("sessions") /\ SessionsNext
  \/ OnPart("activation") /\ AccountNext
  \/ OnPart("resumes") /\ ResumeNext
  \/ OnPart("exports") /\ ExportNext

PartsSpec ==
  PartsInit /\ [][PartsNext]_<<part, sessionsVars, accountVars, resumeVars, exportVars>>

PartsSymmetry == Permutations(Requests) \cup Permutations(Tokens) \cup Permutations(Signups)

----------------------------------------------------------------------------
\* Every variable has its type, and what the types relate agrees.
PartsTypeOK ==
  /\ part \in Parts
  /\ SessionsTypeOK /\ AccountTypeOK /\ ResumeTypeOK /\ ExportTypeOK
=============================================================================
