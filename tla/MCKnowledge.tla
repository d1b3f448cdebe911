----------------------------- MODULE MCKnowledge -----------------------------
(* What is known and where it comes from, one component to a behaviour:      *)
(* entries (a term, a rule and an example, with two requests; the rule was   *)
(* found in conflict with the term when it was proposed, the example         *)
(* supplements the rule), the terms of the schema, and dictionaries of       *)
(* enums with the fields bound to them.                                      *)
EXTENDS Knowledge, Vocabulary, TLC

CONSTANTS t, u, x, r1, r2, r3

MCEntries == {t, u, x}
MCTypeOf  == (t :> "terminology") @@ (u :> "rule") @@ (x :> "example")
MCRelated == (t :> {}) @@ (u :> {[to |-> t, rel |-> "conflict"]})
             @@ (x :> {[to |-> u, rel |-> "supplement"], [to |-> t, rel |-> "equivalent"]})
MCMissing == {"missing"}

Job(op, e) == [op |-> op, e |-> e]
ApproveJob(e, ids, tier) ==
  [op |-> "approve", e |-> e, ids |-> ids, tier |-> tier, what |-> "none"]
PatchJob(e, st, tier, what) ==
  [op |-> "patch", e |-> e, st |-> st, tier |-> tier, what |-> what]
EditJob(e, tier, what, hq) ==
  [op |-> "edit", e |-> e, tier |-> tier, what |-> what, hq |-> hq]

MCMenu ==
  {Job("reject", t), Job("reject", x), Job("restore", t), Job("restore", u),
   Job("supersede", t), Job("soft", t), Job("soft", x), Job("hard", t), Job("hard", u),
   [op |-> "create", e |-> t, tier |-> "normal"], [op |-> "create", e |-> u, tier |-> "normal"],
   [op |-> "save", e |-> u, tier |-> "normal"],
   ApproveJob(t, {}, "same"), ApproveJob(t, {x}, "critical"), ApproveJob(u, {}, "same"),
   ApproveJob(x, {u}, "same"),
   PatchJob(t, "canonical", "same", "none"), PatchJob(t, "rejected", "same", "none"),
   PatchJob(t, "same", "normal", "none"), PatchJob(t, "same", "critical", "content"),
   PatchJob(x, "rejected", "same", "none"), PatchJob(x, "same", "same", "content"),
   PatchJob(u, "rejected", "same", "none"),
   EditJob(t, "same", "payload", FALSE), EditJob(t, "critical", "payload", FALSE),
   EditJob(x, "same", "content", FALSE), EditJob(u, "same", "content", FALSE),
   EditJob(u, "same", "none", TRUE),
   [op |-> "batch", yes |-> {t}, no |-> {x}, ids |-> {u}],
   [op |-> "batch", yes |-> {u}, no |-> {t}, ids |-> {}],
   [op |-> "decay", on |-> {t, u, x}], [op |-> "expire", on |-> {t, u, x}],
   [op |-> "purge"]}

MCInit ==
  /\ Init
  /\ row[t].st \in {"proposed", "canonical", "rejected"}
  /\ row[t].tier = "critical" => row[t].st = "canonical"
  /\ \A e \in {u, x} : row[e].tier = "normal" /\ row[e].st \in {"proposed", "canonical"}
  /\ human \subseteq {u}

VARIABLE part  \* the component the behaviour is about

Pay(w) == [term |-> w, syn |-> {}, anchor |-> 1]
MCPayloads == {Pay("w1"), Pay("w2")}
MCRawTerms == {[word |-> "w1", syn |-> {}, from |-> <<1>>],
               [word |-> "w2", syn |-> {}, from |-> <<9, 1>>]}
MCMatching == {<<"f1", "e1">>}
MCUncovered == {<<"f1", 2>>, <<"f2", 1>>}

all == <<part, vars, termVars, enumVars>>

EntriesNext ==
  part = "entries" /\ Next /\ UNCHANGED <<part, termVars, enumVars>>
MCTermsNext ==
  part = "terms" /\ TermsNext /\ UNCHANGED <<part, vars>>
MCEnumsNext ==
  part = "enums" /\ EnumsNext /\ UNCHANGED <<part, vars>>

AllInit ==
  /\ part \in {"entries", "terms", "enums"}
  /\ MCInit
  /\ part # "entries" => human = {} /\ \A e \in Entries : row[e].st = "proposed"
  /\ T!Init
  /\ part # "terms" => \A i \in DOMAIN ke : ke[i] = T!Unborn
  /\ D!Init
  /\ part # "enums" => \A e \in DOMAIN dict : dict[e].st = "none"
AllNext == EntriesNext \/ MCTermsNext \/ MCEnumsNext
All     == AllInit /\ [][AllNext]_all

Symmetry == Permutations(Requests)
==============================================================================
