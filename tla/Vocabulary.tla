----------------------------- MODULE Vocabulary -----------------------------
(***************************************************************************)
(* What the names in a schema mean, in two parts that share no state: the  *)
(* terms of a namespace (Terminology) and the dictionaries of enums with   *)
(* the fields bound to them (EnumSync).  A step is a step of one of them.  *)
(* The names differ from those of Knowledge, which is checked beside it.   *)
(***************************************************************************)
EXTENDS Naturals, Sequences, FiniteSets

CONSTANTS
  TermIds, ConflictIds, Payloads, Routable, Described, RawTerms, Askers, Refreshes,  \* Terminology
  Fields, Enums, Matching, Suffixed, Uncovered, Changers, BatchSize, MaxVersion, NoEnum  \* EnumSync

\* Requests of people are not refreshes, and neither is what wrote the rows that
\* were there before.
ASSUME WritersDiffer == Askers \cap Refreshes = {} /\ "old" \notin Askers \cup Refreshes

\* settings.enum_sync_batch_size counts rows.
ASSUME BatchesAreCounts == BatchSize \in Nat \ {0}

VARIABLES
  ke, conf, job, task,  \* Terminology
  dict, field, open, queue, work, reqs, missed  \* EnumSync

T == INSTANCE Terminology WITH
  Ids <- TermIds, Cids <- ConflictIds, Jobs <- Askers, Tasks <- Refreshes
D == INSTANCE EnumSync WITH Requests <- Changers, None <- NoEnum, req <- reqs

termVars == <<ke, conf, job, task>>
enumVars == <<dict, field, open, queue, work, reqs, missed>>

TermsNext == T!Next /\ UNCHANGED enumVars
EnumsNext == D!Next /\ UNCHANGED termVars

Vocabulary ==
  /\ T!Init /\ D!Init
  /\ [][TermsNext \/ EnumsNext]_<<termVars, enumVars>>

----------------------------------------------------------------------------
(* What the modules state *)

\* The terms that refreshes wrote are those of one refresh (Terminology).
OneGeneration == T!OneGeneration

\* At rest, bound fields have the values of their dictionary (EnumSync).
CopiesAgree == D!CopiesAgree
=============================================================================
