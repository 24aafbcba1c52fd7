----------------------------- MODULE PolicyAuthoring -----------------------------
(***************************************************************************)
(* How the policy of the categories comes about: run_bootstrap             *)
(* (policy/policy/bootstrap.py) seeds and authors rubrics and attribute    *)
(* definitions, bootstrap labelling drafts term lists, train_all           *)
(* (tree_train.py) learns the trees, and JUDGE (graph.py) reads what there *)
(* is and picks the way each category is judged.                           *)
(*                                                                         *)
(* Each of them works through the categories one by one, and each write is *)
(* an upsert_policy of its own: one step here, for how sessions on one     *)
(* node interleave is PolicyStore's matter.  A definition and a rubric are *)
(* known by the run that wrote them; what they say is left out, and so are *)
(* scores and the fit (RuleLearning), and frames and prompts.              *)
(***************************************************************************)
EXTENDS Integers, Sequences, FiniteSets, SequencesExt

CONSTANTS
  Active,      \* the active categories, in the order of the configuration
  Names,       \* attribute names
  Replies,     \* the sequences of attributes the policy model may propose
  Bootstraps,  \* calls of run_bootstrap
  Trainings,   \* calls of train_all
  Judgings,    \* shots put to JUDGE
  MinRows,     \* _MIN_ROWS; a label here stands for many of its kind
  MaxDrafts,   \* bound: term lists drafted
  Earlier,     \* a bootstrap of an earlier day
  FirstNames,  \* the attributes it defined in each category; with any, there are labels
  Pegi,        \* the PEGI rubric of a category
  None         \* no such node

Categories == ToSet(Active)
Jobs       == Bootstraps \cup Trainings \cup Judgings

ASSUME CategoriesAssumption == Active \in Seq(Categories)
ASSUME FirstNamesAssumption == FirstNames \in [Categories -> SUBSET Names]
ASSUME RepliesAssumption    == Replies \subseteq Seq(Names) /\ MinRows \in Nat /\ MaxDrafts \in Nat
ASSUME JobsAssumption ==
  Bootstraps \cap Trainings = {} /\ Bootstraps \cap Judgings = {} /\ Trainings \cap Judgings = {}

Definition(k) == [kind |-> "attribute_def", by |-> k]
TermLevels    == [kind |-> "term_levels", by |-> None]

ASSUME NoneAssumption ==
  \A k \in Bootstraps \cup {Earlier} : None \notin {k, Pegi, Definition(k)}

VARIABLES
  rubric,   \* the `{category}.scoring` nodes, each by who wrote it
  attrs,    \* the `{category}.attr.{name}` nodes
  tree,     \* the `{category}.rules` nodes: the attributes their rules test
  labels,   \* what JUDGE made
  job,      \* where each call stands
  drafted,  \* history: the attributes over which a term list was written
  author    \* history: the bootstrap that alone has written each category since it was seeded

nodes == <<rubric, attrs, tree>>
vars  == <<nodes, labels, job, drafted, author>>

NotBegun == [pc |-> "none"]

(* Categories that were authored before have their first labels, too.      *)
Init ==
  /\ rubric = [c \in Categories |-> IF FirstNames[c] = {} THEN None ELSE Earlier]
  /\ attrs = [c \in Categories |->
               [n \in Names |-> IF n \in FirstNames[c] THEN Definition(Earlier) ELSE None]]
  /\ tree = [c \in Categories |-> None]
  /\ labels = {[shot |-> None, cat |-> c, path |-> "boot", names |-> FirstNames[c], over |-> {}] :
                 c \in {c \in Categories : FirstNames[c] # {}}}
  /\ job = [j \in Jobs |-> NotBegun]
  /\ drafted = {}
  /\ author = [c \in Categories |-> None]

Defined(c) == {n \in Names : attrs[c][n] # None /\ attrs[c][n].kind = "attribute_def"}

(* The category a loop is at.                                              *)
At(j) == Head(job[j].left)

Writes(k) == author' = [author EXCEPT ![At(k)] = IF @ = k THEN k ELSE None]

-----------------------------------------------------------------------------
(* run_bootstrap: seed_from_pegi writes the PEGI rubric of every category, *)
(* over a refined one too; then every active category is authored.         *)
Bootstrap(k) ==
  /\ job[k] = NotBegun
  /\ job' = [job EXCEPT ![k] = [pc |-> "seed", left |-> Active, names |-> <<>>,
                                said |-> <<>>, text |-> "none",
                                authored |-> {}, failed |-> {}]]
  /\ UNCHANGED <<nodes, labels, drafted, author>>

Seed(k) ==
  /\ job[k].pc = "seed"
  /\ IF job[k].left = <<>>
     THEN /\ job' = [job EXCEPT ![k].pc = "author", ![k].left = Active]
          /\ UNCHANGED <<rubric, author>>
     ELSE /\ rubric' = [rubric EXCEPT ![At(k)] = Pegi]
          /\ author' = [author EXCEPT ![At(k)] = k]
          /\ job' = [job EXCEPT ![k].left = Tail(@)]
  /\ UNCHANGED <<attrs, tree, labels, drafted>>

(* author_category_policy: one request to the policy model, whose answer   *)
(* may lack the rubric.                                                    *)
Author(k) ==
  /\ job[k].pc = "author" /\ job[k].left # <<>>
  /\ \E names \in Replies, text \in {k, "none"} :
       job' = [job EXCEPT ![k].pc = "rubric", ![k].names = names, ![k].said = names,
                          ![k].text = text]
  /\ UNCHANGED <<nodes, labels, drafted, author>>

(* Without one the base rubric is written, which is PEGI's.                *)
RubricText(k) == IF job[k].text = "none" THEN Pegi ELSE job[k].text

(* Faults: the category is authored from scratch, its old attributes go;   *)
(* the answer's rubric is taken as it is.                                  *)
AuthorRubricClears(k) ==
  /\ job[k].pc = "rubric"
  /\ rubric' = [rubric EXCEPT ![At(k)] = RubricText(k)]
  /\ attrs' = [attrs EXCEPT ![At(k)] = [n \in Names |-> None]]
  /\ Writes(k)
  /\ job' = [job EXCEPT ![k].pc = "attrs"]
  /\ UNCHANGED <<tree, labels, drafted>>

AuthorRubricAnswer(k) ==
  /\ job[k].pc = "rubric"
  /\ rubric' = [rubric EXCEPT ![At(k)] = job[k].text]
  /\ Writes(k)
  /\ job' = [job EXCEPT ![k].pc = "attrs"]
  /\ UNCHANGED <<attrs, tree, labels, drafted>>

AuthorRubric(k) ==
  /\ job[k].pc = "rubric"
  /\ rubric' = [rubric EXCEPT ![At(k)] = RubricText(k)]
  /\ Writes(k)
  /\ job' = [job EXCEPT ![k].pc = "attrs"]
  /\ UNCHANGED <<attrs, tree, labels, drafted>>

(* upsert_attribute_definition, once per attribute of the answer.          *)
AuthorAttribute(k) ==
  /\ job[k].pc = "attrs" /\ job[k].names # <<>>
  /\ attrs' = [attrs EXCEPT ![At(k)][Head(job[k].names)] = Definition(k)]
  /\ Writes(k)
  /\ job' = [job EXCEPT ![k].names = Tail(@)]
  /\ UNCHANGED <<rubric, tree, labels, drafted>>

NextCategory(k, done) ==
  [job EXCEPT ![k].pc = "author", ![k].left = Tail(@),
              ![k].authored = IF done THEN @ \cup {[cat |-> At(k), names |-> ToSet(job[k].said)]} ELSE @,
              ![k].failed = IF done THEN @ ELSE @ \cup {At(k)}]

Authored(k) ==
  /\ job[k].pc = "attrs" /\ job[k].names = <<>>
  /\ job' = NextCategory(k, TRUE)
  /\ UNCHANGED <<nodes, labels, drafted, author>>

(* Faults: the exception is not caught; it is caught inside                *)
(* author_category_policy, and the summary names the category.             *)
Authoring(k) == job[k].pc \in {"author", "rubric", "attrs"} /\ job[k].left # <<>>

AuthorFailsAborts(k) ==
  /\ Authoring(k)
  /\ job' = [job EXCEPT ![k] = [pc |-> "aborted", authored |-> @.authored, failed |-> @.failed]]
  /\ UNCHANGED <<nodes, labels, drafted, author>>

AuthorFailsSilently(k) ==
  /\ Authoring(k)
  /\ job' = NextCategory(k, TRUE)
  /\ UNCHANGED <<nodes, labels, drafted, author>>

(* A request, an answer that is no object, or an upsert fails: the         *)
(* category is left as it is, and the next one is authored.                *)
AuthorFails(k) ==
  /\ Authoring(k)
  /\ job' = NextCategory(k, FALSE)
  /\ UNCHANGED <<nodes, labels, drafted, author>>

BootstrapEnds(k) ==
  /\ job[k].pc = "author" /\ job[k].left = <<>>
  /\ job' = [job EXCEPT ![k] = [pc |-> "ended", authored |-> @.authored, failed |-> @.failed]]
  /\ UNCHANGED <<nodes, labels, drafted, author>>

-----------------------------------------------------------------------------
(* train_all.  A category's rows are its labels that carry one of its      *)
(* defined attributes; with too few of them, or one score only, it keeps   *)
(* the tree it has.  The rules test some of the attributes, or none when   *)
(* no split tells the rows apart.  The description that follows changes no *)
(* rule (ChangeQueue).                                                     *)
TrainAll(t) ==
  /\ job[t] = NotBegun
  /\ job' = [job EXCEPT ![t] = [pc |-> "train", left |-> Active, over |-> {}]]
  /\ UNCHANGED <<nodes, labels, drafted, author>>

TrainingRows(c) == {l \in labels : l.cat = c /\ l.names \cap Defined(c) # {}}

TrainRead(t) ==
  /\ job[t].pc = "train" /\ job[t].left # <<>>
  /\ TrainingRows(At(t)) # {} /\ Cardinality(TrainingRows(At(t))) >= MinRows
  /\ \E over \in SUBSET Defined(At(t)) : job' = [job EXCEPT ![t].pc = "save", ![t].over = over]
  /\ UNCHANGED <<nodes, labels, drafted, author>>

TrainSave(t) ==
  /\ job[t].pc = "save"
  /\ tree' = [tree EXCEPT ![At(t)] = [over |-> job[t].over]]
  /\ job' = [job EXCEPT ![t].pc = "train", ![t].left = Tail(@)]
  /\ UNCHANGED <<rubric, attrs, labels, drafted, author>>

(* Nothing to learn from, or an exception: on to the next category.        *)
TrainSkip(t) ==
  /\ job[t].pc \in {"train", "save"} /\ job[t].left # <<>>
  /\ job' = [job EXCEPT ![t].pc = "train", ![t].left = Tail(@)]
  /\ UNCHANGED <<nodes, labels, drafted, author>>

TrainEnds(t) ==
  /\ job[t].pc = "train" /\ job[t].left = <<>>
  /\ job' = [job EXCEPT ![t] = [pc |-> "ended"]]
  /\ UNCHANGED <<nodes, labels, drafted, author>>

-----------------------------------------------------------------------------
(* JUDGE reads the nodes of each category, in one SELECT.                  *)
Judge(s, boot) ==
  /\ job[s] = NotBegun
  /\ job' = [job EXCEPT ![s] = [pc |-> "read", left |-> Active, boot |-> boot,
                                defs |-> [c \in Categories |-> {}],
                                rule |-> [c \in Categories |-> None]]]
  /\ UNCHANGED <<nodes, labels, drafted, author>>

(* Fault: the tree is read in a SELECT of its own, once all definitions    *)
(* have been read.                                                         *)
JudgeReadTwice(s) ==
  /\ job[s].pc = "read" /\ job[s].left # <<>>
  /\ job' = [job EXCEPT ![s].left = Tail(@), ![s].defs[At(s)] = Defined(At(s)),
                        ![s].rule = IF Len(job[s].left) = 1 THEN tree ELSE @]
  /\ UNCHANGED <<nodes, labels, drafted, author>>

JudgeRead(s) ==
  /\ job[s].pc = "read" /\ job[s].left # <<>>
  /\ job' = [job EXCEPT ![s].left = Tail(@), ![s].defs[At(s)] = Defined(At(s)),
                        ![s].rule[At(s)] = tree[At(s)]]
  /\ UNCHANGED <<nodes, labels, drafted, author>>

(* With definitions and a tree, the tree decides; in bootstrap, with       *)
(* definitions, all of them are extracted; otherwise the model is free.    *)
Path(s, c) ==
  CASE job[s].boot /\ job[s].defs[c] # {}                                -> "boot"
    [] ~job[s].boot /\ job[s].defs[c] # {} /\ job[s].rule[c] # None      -> "rules"
    [] OTHER                                                             -> "free"

(* One label per category on the first two paths, with every definition    *)
(* as evidence; on the third, one for every category the answer names, and *)
(* in bootstrap term lists.                                                *)
JudgeEnds(s) ==
  /\ job[s].pc = "read" /\ job[s].left = <<>>
  /\ \E named \in SUBSET {c \in Categories : Path(s, c) = "free"} :
       job' = [job EXCEPT ![s] =
         [pc     |-> "side_fx",
          drafts |-> job[s].boot /\ \E c \in Categories : Path(s, c) = "free",
          made   |-> {[shot |-> s, cat |-> c, path |-> Path(s, c),
                       names |-> IF Path(s, c) = "free" THEN {} ELSE job[s].defs[c],
                       over  |-> IF Path(s, c) = "rules" THEN job[s].rule[c].over ELSE {}] :
                        c \in named \cup {c \in Categories : Path(s, c) # "free"}}]]
  /\ UNCHANGED <<nodes, labels, drafted, author>>

(* _side_fx: a term list that the free answer of a bootstrap proposes is   *)
(* written at once, into whatever category and attribute it names; then    *)
(* the labels are saved.                                                   *)
Draft(s, c, n) ==
  /\ job[s].pc = "side_fx" /\ job[s].drafts
  /\ Cardinality(drafted) < MaxDrafts
  /\ attrs' = [attrs EXCEPT ![c][n] = TermLevels]
  /\ drafted' = drafted \cup {<<c, n>>}
  /\ UNCHANGED <<rubric, tree, labels, job, author>>

SaveLabels(s) ==
  /\ job[s].pc = "side_fx"
  /\ labels' = labels \cup job[s].made
  /\ job' = [job EXCEPT ![s] = [pc |-> "ended"]]
  /\ UNCHANGED <<nodes, drafted, author>>

-----------------------------------------------------------------------------
(* The process of a bootstrap dies.  For a training that is to skip the    *)
(* categories that are left, and JUDGE has written nothing before its end. *)
Die(k) ==
  /\ job[k].pc \in {"seed", "author", "rubric", "attrs"}
  /\ job' = [job EXCEPT ![k] = [pc |-> "died", authored |-> @.authored, failed |-> @.failed]]
  /\ UNCHANGED <<nodes, labels, drafted, author>>

BootstrapStep(k) ==
  \/ Seed(k) \/ Author(k) \/ AuthorRubric(k) \/ AuthorAttribute(k) \/ Authored(k)
  \/ AuthorFails(k) \/ BootstrapEnds(k)

TrainStep(t) == TrainRead(t) \/ TrainSave(t) \/ TrainSkip(t) \/ TrainEnds(t)

JudgeStep(s) ==
  \/ JudgeRead(s) \/ JudgeEnds(s) \/ SaveLabels(s)
  \/ \E c \in Categories, n \in Names : Draft(s, c, n)

Next ==
  \/ \E k \in Bootstraps : Bootstrap(k) \/ BootstrapStep(k) \/ Die(k)
  \/ \E t \in Trainings : TrainAll(t) \/ TrainStep(t)
  \/ \E s \in Judgings : (\E boot \in BOOLEAN : Judge(s, boot)) \/ JudgeStep(s)

Spec == Init /\ [][Next]_vars

(* run_bootstrap is a plain loop: once called it goes on.                  *)
FairSpec == Spec /\ \A k \in Bootstraps : WF_vars(BootstrapStep(k))

-----------------------------------------------------------------------------
(* The types of the nodes and of the labels (policy_store.py, models.py).  *)
TypeOK ==
  /\ rubric \in [Categories -> {None, Pegi, Earlier} \cup Bootstraps]
  /\ attrs \in [Categories -> [Names -> {None, TermLevels} \cup {Definition(k) : k \in Bootstraps \cup {Earlier}}]]
  /\ \A c \in Categories : tree[c] = None \/ tree[c].over \subseteq Names
  /\ \A l \in labels : l.cat \in Categories /\ l.over \cup l.names \subseteq Names
  /\ drafted \subseteq Categories \X Names
  /\ author \in [Categories -> {None} \cup Bootstraps]

(* A tree tests no attribute but those its category still defines, whatever
   is authored anew after the training: the shots it scores are asked for
   all of them.  Only a term list drafted over a definition takes one away
   (train_decision_tree, author_category_policy, _side_fx).                *)
TreeOverDefined ==
  \A c \in Categories : tree[c] # None =>
    \A n \in tree[c].over : n \in Defined(c) \/ <<c, n>> \in drafted

(* A label that a tree scored carries every attribute that tree tests, so
   that the rule it fired can be found again: JUDGE read both from one state
   of the category, also while it was being authored or trained.           *)
LabelCarriesTree ==
  \A l \in labels : l.path = "rules" =>
    \A n \in l.over : n \in l.names \/ <<l.cat, n>> \in drafted

(* What run_bootstrap returns is what it has done: the rubric and every
   attribute of a category it reports as authored are its own, until another
   run writes to the category or a term list is drafted over one.          *)
SummaryTells ==
  \A k \in Bootstraps : job[k].pc # "none" =>
    \A a \in job[k].authored : author[a.cat] = k =>
      /\ rubric[a.cat] \in {k, Pegi}
      /\ \A n \in a.names : attrs[a.cat][n] = Definition(k) \/ <<a.cat, n>> \in drafted

(* "One category must not abort the run": a bootstrap that was begun goes
   through all active categories, unless its process dies.                 *)
EveryCategoryTried ==
  \A k \in Bootstraps :
    job[k].pc = "seed" ~>
      \/ job[k].pc = "died"
      \/ /\ job[k].pc = "ended"
         /\ {a.cat : a \in job[k].authored} \cup job[k].failed = Categories

=============================================================================
