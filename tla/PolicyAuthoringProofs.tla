------------------------- MODULE PolicyAuthoringProofs -------------------------
(***************************************************************************)
(* What holds of authoring, training and judging for any categories, any   *)
(* answers of the policy model and any number of calls, in any overlap.    *)
(*                                                                         *)
(* The argument for TreeOverDefined: no step takes a definition away, but  *)
(* a drafted term list, which is remembered.  So what a training or a      *)
(* judging has read of a category stays true of it, and the invariant says *)
(* of every call what it holds in hand (Remembers).                        *)
(*                                                                         *)
(* The argument for SummaryTells: `author` names the one bootstrap that    *)
(* has written a category since it was seeded, and every write of another  *)
(* takes the category from it.  ReportInv says of a bootstrap at work what *)
(* it has written so far of the category it is at, which is what it will   *)
(* report.                                                                 *)
(***************************************************************************)
EXTENDS PolicyAuthoring, SequenceTheorems, TLAPS

USE CategoriesAssumption, RepliesAssumption

TreeRecs  == {None} \cup [over : SUBSET Names]
LabelRecs == [shot : Judgings \cup {None}, cat : Categories, path : {"boot", "rules", "free"},
              names : SUBSET Names, over : SUBSET Names]
Summaries == [cat : Categories, names : SUBSET Names]

BootstrapJobs ==
  [pc : {"seed", "author", "rubric", "attrs"}, left : Seq(Categories), names : Seq(Names),
   said : Seq(Names), text : Bootstraps \cup {"none"}, authored : SUBSET Summaries,
   failed : SUBSET Categories]
    \cup [pc : {"ended", "died"}, authored : SUBSET Summaries, failed : SUBSET Categories]

TrainingJobs ==
  [pc : {"train", "save"}, left : Seq(Categories), over : SUBSET Names] \cup [pc : {"ended"}]

JudgingJobs ==
  [pc : {"read"}, left : Seq(Categories), boot : BOOLEAN,
   defs : [Categories -> SUBSET Names], rule : [Categories -> TreeRecs]]
    \cup [pc : {"side_fx"}, drafts : BOOLEAN, made : SUBSET LabelRecs]
    \cup [pc : {"ended"}]

JobRec(j, rec) ==
  /\ j \in Bootstraps => rec \in {NotBegun} \cup BootstrapJobs
  /\ j \in Trainings => rec \in {NotBegun} \cup TrainingJobs
  /\ j \in Judgings => rec \in {NotBegun} \cup JudgingJobs
  /\ rec.pc \in {"rubric", "attrs", "save"} => rec.left # <<>>

JobTyped(j) == JobRec(j, job[j])

StoreTyped ==
  /\ rubric \in [Categories -> {None, Pegi, Earlier} \cup Bootstraps]
  /\ attrs \in [Categories -> [Names -> {None, TermLevels} \cup {Definition(k) : k \in Bootstraps \cup {Earlier}}]]
  /\ tree \in [Categories -> TreeRecs]
  /\ labels \subseteq LabelRecs
  /\ drafted \subseteq Categories \X Names
  /\ author \in [Categories -> {None} \cup Bootstraps]

Types ==
  /\ StoreTyped
  /\ job = [j \in Jobs |-> job[j]]
  /\ \A j \in Jobs : JobTyped(j)

(* Nothing is stored yet, or it is from an earlier day.                    *)
LEMMA InitTypes == Init => Types
  <1> SUFFICES ASSUME Init PROVE Types
    OBVIOUS
  <1>1. rubric \in [Categories -> {None, Pegi, Earlier} \cup Bootstraps]
    BY DEF Init
  <1>2. attrs \in [Categories -> [Names -> {None, TermLevels} \cup {Definition(k) : k \in Bootstraps \cup {Earlier}}]]
    BY FirstNamesAssumption DEF Init
  <1>3. labels \subseteq LabelRecs
    BY FirstNamesAssumption DEF Init, LabelRecs
  <1>4. /\ tree \in [Categories -> TreeRecs] /\ drafted \subseteq Categories \X Names
        /\ author \in [Categories -> {None} \cup Bootstraps]
    BY DEF Init, TreeRecs
  <1>5. /\ job = [j \in Jobs |-> job[j]]
        /\ \A j \in Jobs : job[j] = NotBegun
    BY DEF Init
  <1>6. \A j \in Jobs : JobTyped(j)
    BY <1>5 DEF JobTyped, JobRec, NotBegun
  <1> QED
    BY <1>1, <1>2, <1>3, <1>4, <1>5, <1>6 DEF Types, StoreTyped

(* Types says more than TypeOK.                                            *)
LEMMA TypesTyped == Types => TypeOK
  BY DEF Types, StoreTyped, TypeOK, TreeRecs, LabelRecs

(* A step moves one call.                                                  *)
LEMMA OneCallMoves ==
  ASSUME Types, NEW j \in Jobs, StoreTyped', JobTyped(j)',
         job' = [job EXCEPT ![j] = job'[j]]
  PROVE  Types'
  <1>1. \A i \in Jobs : i # j => job'[i] = job[i]
    BY DEF Types
  <1>2. \A i \in Jobs : i # j => JobTyped(i)'
    BY <1>1 DEF Types, JobTyped
  <1>3. job' = [i \in Jobs |-> job'[i]]
    BY DEF Types
  <1> QED
    BY <1>2, <1>3 DEF Types

(* The records of a bootstrap at work.                                     *)
AuthoringRecs ==
  [pc : {"seed", "author", "rubric", "attrs"}, left : Seq(Categories), names : Seq(Names),
   said : Seq(Names), text : Bootstraps \cup {"none"}, authored : SUBSET Summaries,
   failed : SUBSET Categories]

(* The record of a bootstrap that has begun.                               *)
LEMMA BootstrapRec ==
  ASSUME NEW k \in Bootstraps, NEW rec,
         rec \in AuthoringRecs \cup
                  [pc : {"ended", "died"}, authored : SUBSET Summaries, failed : SUBSET Categories],
         rec.pc \in {"rubric", "attrs"} => rec.left # <<>>
  PROVE  JobRec(k, rec)
  <1>1. rec \in BootstrapJobs
    BY DEF BootstrapJobs, AuthoringRecs
  <1>2. rec.pc # "save"
    BY DEF AuthoringRecs
  <1> QED
    BY <1>1, <1>2, JobsAssumption DEF JobRec

(* One that is at work has a category, names and a summary.                *)
LEMMA BootstrapAtWork ==
  ASSUME Types, NEW k \in Bootstraps, job[k].pc \in {"seed", "author", "rubric", "attrs"}
  PROVE  /\ k \in Jobs
         /\ job[k] \in AuthoringRecs
         /\ job[k].left # <<>> => At(k) \in Categories
         /\ job[k].pc \in {"rubric", "attrs"} => job[k].left # <<>>
  <1>1. k \in Jobs
    BY DEF Jobs
  <1>2. JobTyped(k)
    BY <1>1 DEF Types
  <1>3. job[k] \in BootstrapJobs
    BY <1>2 DEF JobTyped, JobRec, NotBegun
  <1>4. job[k] \in AuthoringRecs
    BY <1>3 DEF BootstrapJobs, AuthoringRecs
  <1>5. job[k].left \in Seq(Categories)
    BY <1>4 DEF AuthoringRecs
  <1>6. job[k].left # <<>> => At(k) \in Categories
    BY <1>5, HeadTailProperties DEF At
  <1> QED
    BY <1>1, <1>2, <1>4, <1>6 DEF JobTyped, JobRec

(* The steps of run_bootstrap keep the types.                              *)
LEMMA BootstrapTypes ==
  ASSUME Types, NEW k \in Bootstraps, Bootstrap(k) \/ BootstrapStep(k) \/ Die(k)
  PROVE  Types'
  <1>0. k \in Jobs
    BY DEF Jobs
  <1>1. CASE Bootstrap(k)
    <2>1. job'[k] = [pc |-> "seed", left |-> Active, names |-> <<>>, said |-> <<>>, text |-> "none",
                     authored |-> {}, failed |-> {}]
      BY <1>0, <1>1 DEF Bootstrap, Types
    <2>2. job'[k] \in AuthoringRecs
      <3>1. <<>> \in Seq(Names) /\ Active \in Seq(Categories)
        OBVIOUS
      <3> HIDE DEF Categories
      <3> QED
        BY <2>1, <3>1 DEF AuthoringRecs
    <2>3. JobTyped(k)' /\ job' = [job EXCEPT ![k] = job'[k]]
      BY <1>0, <1>1, <2>1, <2>2, BootstrapRec DEF Bootstrap, Types, JobTyped, AuthoringRecs
    <2> QED
      BY <1>0, <1>1, <2>3, OneCallMoves DEF Bootstrap, nodes, Types, StoreTyped
  <1>2. CASE Seed(k)
    <2>1. job[k] \in AuthoringRecs /\ (job[k].left # <<>> => At(k) \in Categories)
      BY <1>2, BootstrapAtWork DEF Seed
    <2>2. job'[k] \in AuthoringRecs /\ job'[k].pc \in {"seed", "author"}
      <3>1. CASE job[k].left = <<>>
        <4>1. job'[k] = [job[k] EXCEPT !.pc = "author", !.left = Active]
          BY <1>0, <1>2, <3>1 DEF Seed, Types
        <4> QED
          BY <2>1, <4>1 DEF AuthoringRecs
      <3>2. CASE job[k].left # <<>>
        <4>1. job'[k] = [job[k] EXCEPT !.left = Tail(@)]
          BY <1>0, <1>2, <3>2 DEF Seed, Types
        <4>2. Tail(job[k].left) \in Seq(Categories)
          BY <2>1, <3>2, HeadTailProperties DEF AuthoringRecs
        <4> QED
          BY <1>2, <2>1, <4>1, <4>2 DEF Seed, AuthoringRecs
      <3> QED
        BY <3>1, <3>2
    <2>3. JobTyped(k)' /\ job' = [job EXCEPT ![k] = job'[k]]
      BY <1>0, <1>2, <2>2, BootstrapRec DEF Seed, Types, JobTyped, AuthoringRecs
    <2>4. StoreTyped'
      BY <1>2, <2>1 DEF Seed, Types, StoreTyped
    <2> QED
      BY <1>0, <2>3, <2>4, OneCallMoves
  <1>3. CASE Author(k)
    <2>1. job[k] \in AuthoringRecs
      BY <1>3, BootstrapAtWork DEF Author
    <2>2. job'[k] \in AuthoringRecs /\ job'[k].pc = "rubric" /\ job'[k].left # <<>>
      <3>1. PICK names \in Replies, text \in {k, "none"} :
              job'[k] = [job[k] EXCEPT !.pc = "rubric", !.names = names, !.said = names,
                                       !.text = text]
        BY <1>0, <1>3 DEF Author, Types
      <3>2. names \in Seq(Names) /\ text \in Bootstraps \cup {"none"}
        OBVIOUS
      <3> QED
        BY <1>3, <2>1, <3>1, <3>2 DEF Author, AuthoringRecs
    <2>3. JobTyped(k)' /\ job' = [job EXCEPT ![k] = job'[k]]
      BY <1>0, <1>3, <2>2, BootstrapRec DEF Author, Types, JobTyped, AuthoringRecs
    <2> QED
      BY <1>0, <1>3, <2>3, OneCallMoves DEF Author, nodes, Types, StoreTyped
  <1>4. CASE AuthorRubric(k)
    <2>1. job[k] \in AuthoringRecs /\ job[k].left # <<>> /\ At(k) \in Categories
      BY <1>4, BootstrapAtWork DEF AuthorRubric
    <2>2. job'[k] \in AuthoringRecs /\ job'[k].left # <<>>
      BY <1>0, <1>4, <2>1 DEF AuthorRubric, Types, AuthoringRecs
    <2>3. JobTyped(k)' /\ job' = [job EXCEPT ![k] = job'[k]]
      BY <1>0, <1>4, <2>2, BootstrapRec DEF AuthorRubric, Types, JobTyped, AuthoringRecs
    <2>4. RubricText(k) \in Bootstraps \cup {Pegi}
      BY <2>1 DEF RubricText, AuthoringRecs
    <2>5. StoreTyped'
      BY <1>4, <2>1, <2>4 DEF AuthorRubric, Writes, Types, StoreTyped
    <2> QED
      BY <1>0, <2>3, <2>5, OneCallMoves
  <1>5. CASE AuthorAttribute(k)
    <2>1. job[k] \in AuthoringRecs /\ job[k].left # <<>> /\ At(k) \in Categories
      BY <1>5, BootstrapAtWork DEF AuthorAttribute
    <2>2. Head(job[k].names) \in Names /\ Tail(job[k].names) \in Seq(Names)
      BY <1>5, <2>1, HeadTailProperties DEF AuthorAttribute, AuthoringRecs
    <2>3. job'[k] \in AuthoringRecs /\ job'[k].left # <<>>
      BY <1>0, <1>5, <2>1, <2>2 DEF AuthorAttribute, Types, AuthoringRecs
    <2>4. JobTyped(k)' /\ job' = [job EXCEPT ![k] = job'[k]]
      BY <1>0, <1>5, <2>3, BootstrapRec DEF AuthorAttribute, Types, JobTyped, AuthoringRecs
    <2>5. StoreTyped'
      BY <1>5, <2>1, <2>2 DEF AuthorAttribute, Writes, Types, StoreTyped
    <2> QED
      BY <1>0, <2>4, <2>5, OneCallMoves
  <1>6. CASE Authored(k) \/ AuthorFails(k)
    <2>1. job[k] \in AuthoringRecs /\ job[k].left # <<>> /\ At(k) \in Categories
      BY <1>6, BootstrapAtWork DEF Authored, AuthorFails, Authoring
    <2>2. [cat |-> At(k), names |-> ToSet(job[k].said)] \in Summaries
      <3>1. job[k].said \in Seq(Names)
        BY <2>1 DEF AuthoringRecs
      <3>2. \A i \in DOMAIN job[k].said : job[k].said[i] \in Names
        BY <3>1, LenProperties, ElementOfSeq
      <3> QED
        BY <2>1, <3>2 DEF ToSet, Summaries
    <2>3. job'[k] \in AuthoringRecs /\ job'[k].pc = "author"
      <3>1. Tail(job[k].left) \in Seq(Categories)
        BY <2>1, HeadTailProperties DEF AuthoringRecs
      <3>2. PICK done \in BOOLEAN : job' = NextCategory(k, done)
        BY <1>6 DEF Authored, AuthorFails
      <3> DEFINE sums == IF done THEN job[k].authored \cup {[cat |-> At(k), names |-> ToSet(job[k].said)]}
                         ELSE job[k].authored
                 fails == IF done THEN job[k].failed ELSE job[k].failed \cup {At(k)}
      <3>3. job'[k] = [job[k] EXCEPT !.pc = "author", !.left = Tail(@), !.authored = sums,
                                     !.failed = fails]
        BY <1>0, <3>2 DEF NextCategory, Types
      <3>4. sums \in SUBSET Summaries /\ fails \in SUBSET Categories
        BY <2>1, <2>2 DEF AuthoringRecs
      <3> HIDE DEF sums, fails
      <3> QED
        BY <2>1, <3>1, <3>3, <3>4 DEF AuthoringRecs
    <2>4. JobTyped(k)' /\ job' = [job EXCEPT ![k] = job'[k]]
      BY <1>0, <1>6, <2>3, BootstrapRec DEF Authored, AuthorFails, NextCategory, Types, JobTyped, AuthoringRecs
    <2> QED
      BY <1>0, <1>6, <2>4, OneCallMoves DEF Authored, AuthorFails, nodes, Types, StoreTyped
  <1>7. CASE BootstrapEnds(k) \/ Die(k)
    <2>1. job[k] \in AuthoringRecs
      BY <1>7, BootstrapAtWork DEF BootstrapEnds, Die
    <2>2. job'[k] \in [pc : {"ended", "died"}, authored : SUBSET Summaries, failed : SUBSET Categories]
      <3>1. PICK end \in {"ended", "died"} :
              job'[k] = [pc |-> end, authored |-> job[k].authored, failed |-> job[k].failed]
        BY <1>0, <1>7 DEF BootstrapEnds, Die, Types
      <3> QED
        BY <2>1, <3>1 DEF AuthoringRecs
    <2>3. JobTyped(k)' /\ job' = [job EXCEPT ![k] = job'[k]]
      BY <1>0, <1>7, <2>2, BootstrapRec DEF BootstrapEnds, Die, Types, JobTyped
    <2> QED
      BY <1>0, <1>7, <2>3, OneCallMoves DEF BootstrapEnds, Die, nodes, Types, StoreTyped
  <1> QED
    BY <1>1, <1>2, <1>3, <1>4, <1>5, <1>6, <1>7 DEF BootstrapStep

(* The records of a training.                                              *)
LEMMA TrainingRec ==
  ASSUME NEW t \in Trainings, NEW rec \in TrainingJobs, rec.pc = "save" => rec.left # <<>>
  PROVE  JobRec(t, rec)
  <1>1. rec.pc \notin {"rubric", "attrs"}
    BY DEF TrainingJobs
  <1> QED
    BY <1>1, JobsAssumption DEF JobRec

(* A training at work has categories left and attributes in hand.          *)
LEMMA TrainingAtWork ==
  ASSUME Types, NEW t \in Trainings, job[t].pc \in {"train", "save"}
  PROVE  /\ t \in Jobs
         /\ job[t] \in [pc : {"train", "save"}, left : Seq(Categories), over : SUBSET Names]
         /\ job[t].left # <<>> => At(t) \in Categories /\ Tail(job[t].left) \in Seq(Categories)
         /\ job[t].pc = "save" => job[t].left # <<>>
  <1>1. t \in Jobs
    BY DEF Jobs
  <1>2. JobTyped(t)
    BY <1>1 DEF Types
  <1>3. job[t] \in [pc : {"train", "save"}, left : Seq(Categories), over : SUBSET Names]
    BY <1>2 DEF JobTyped, JobRec, NotBegun, TrainingJobs
  <1>4. job[t].left # <<>> => At(t) \in Categories /\ Tail(job[t].left) \in Seq(Categories)
    BY <1>3, HeadTailProperties DEF At
  <1> QED
    BY <1>1, <1>2, <1>3, <1>4 DEF JobTyped, JobRec

(* What is read of a category.                                             *)
LEMMA DefinedNames == \A c : Defined(c) \in SUBSET Names
  BY DEF Defined

(* The steps of train_all keep the types.                                  *)
LEMMA TrainTypes ==
  ASSUME Types, NEW t \in Trainings, TrainAll(t) \/ TrainStep(t)
  PROVE  Types'
  <1>0. t \in Jobs
    BY DEF Jobs
  <1>1. ASSUME job'[t] \in TrainingJobs, job'[t].pc = "save" => job'[t].left # <<>>,
               job' = [job EXCEPT ![t] = job'[t]], StoreTyped'
        PROVE  Types'
    BY <1>0, <1>1, TrainingRec, OneCallMoves DEF JobTyped
  <1>2. CASE TrainAll(t)
    <2>1. /\ job'[t] = [pc |-> "train", left |-> Active, over |-> {}]
          /\ job' = [job EXCEPT ![t] = job'[t]]
      BY <1>0, <1>2 DEF TrainAll, Types
    <2>2. job'[t] \in TrainingJobs
      BY <2>1 DEF TrainingJobs
    <2>3. StoreTyped'
      BY <1>2 DEF TrainAll, nodes, Types, StoreTyped
    <2> QED
      BY <1>1, <2>1, <2>2, <2>3
  <1>3. CASE TrainRead(t)
    <2>1. PICK over \in SUBSET Defined(At(t)) : job'[t] = [job[t] EXCEPT !.pc = "save", !.over = over]
      BY <1>0, <1>3 DEF TrainRead, Types
    <2>2. over \in SUBSET Names
      BY DefinedNames
    <2>3. job'[t] \in TrainingJobs /\ job'[t].left # <<>>
      BY <1>3, <2>1, <2>2, TrainingAtWork DEF TrainRead, TrainingJobs
    <2>4. job' = [job EXCEPT ![t] = job'[t]]
      BY <1>0, <1>3 DEF TrainRead, Types
    <2> QED
      BY <1>1, <1>3, <2>3, <2>4 DEF TrainRead, nodes, Types, StoreTyped
  <1>4. CASE TrainSave(t) \/ TrainSkip(t)
    <2>1. job'[t] = [job[t] EXCEPT !.pc = "train", !.left = Tail(job[t].left)]
      BY <1>0, <1>4 DEF TrainSave, TrainSkip, Types
    <2>2. job'[t] \in TrainingJobs /\ job'[t].pc = "train"
      BY <1>4, <2>1, TrainingAtWork DEF TrainSave, TrainSkip, TrainingJobs
    <2>3. job' = [job EXCEPT ![t] = job'[t]]
      BY <1>0, <1>4 DEF TrainSave, TrainSkip, Types
    <2>4. StoreTyped'
      <3>1. CASE TrainSave(t)
        <4>1. [over |-> job[t].over] \in TreeRecs
          BY <3>1, TrainingAtWork DEF TrainSave, TreeRecs
        <4> QED
          BY <3>1, <4>1 DEF TrainSave, Types, StoreTyped
      <3>2. CASE TrainSkip(t)
        BY <3>2 DEF TrainSkip, nodes, Types, StoreTyped
      <3> QED
        BY <1>4, <3>1, <3>2
    <2> QED
      BY <1>1, <2>2, <2>3, <2>4
  <1>5. CASE TrainEnds(t)
    <2>1. job'[t] = [pc |-> "ended"] /\ job' = [job EXCEPT ![t] = job'[t]]
      BY <1>0, <1>5 DEF TrainEnds, Types
    <2>2. job'[t] \in TrainingJobs
      BY <2>1 DEF TrainingJobs
    <2> QED
      BY <1>1, <1>5, <2>1, <2>2 DEF TrainEnds, nodes, Types, StoreTyped
  <1> QED
    BY <1>2, <1>3, <1>4, <1>5 DEF TrainStep

(* The records of a judging.                                               *)
ReadRecs ==
  [pc : {"read"}, left : Seq(Categories), boot : BOOLEAN,
   defs : [Categories -> SUBSET Names], rule : [Categories -> TreeRecs]]
EffectRecs == [pc : {"side_fx"}, drafts : BOOLEAN, made : SUBSET LabelRecs]

(* The record of a shot put to JUDGE.                                      *)
LEMMA JudgingRec ==
  ASSUME NEW s \in Judgings, NEW rec \in JudgingJobs
  PROVE  JobRec(s, rec)
  <1>1. rec.pc \notin {"rubric", "attrs", "save"}
    BY DEF JudgingJobs
  <1> QED
    BY <1>1, JobsAssumption DEF JobRec

(* A shot being read has categories left; one that was read has its labels.*)
LEMMA JudgingAtWork ==
  ASSUME Types, NEW s \in Judgings
  PROVE  /\ s \in Jobs
         /\ job[s].pc = "read" => job[s] \in ReadRecs
         /\ job[s].pc = "read" /\ job[s].left # <<>> =>
              At(s) \in Categories /\ Tail(job[s].left) \in Seq(Categories)
         /\ job[s].pc = "side_fx" => job[s] \in EffectRecs
  <1>1. s \in Jobs
    BY DEF Jobs
  <1>2. JobTyped(s)
    BY <1>1 DEF Types
  <1>3. /\ job[s].pc = "read" => job[s] \in ReadRecs
        /\ job[s].pc = "side_fx" => job[s] \in EffectRecs
    BY <1>2 DEF JobTyped, JobRec, NotBegun, JudgingJobs, ReadRecs, EffectRecs
  <1>4. ASSUME job[s].pc = "read", job[s].left # <<>>
        PROVE  At(s) \in Categories /\ Tail(job[s].left) \in Seq(Categories)
    <2>1. job[s].left \in Seq(Categories)
      BY <1>3, <1>4 DEF ReadRecs
    <2> QED
      BY <1>4, <2>1, HeadTailProperties DEF At
  <1> QED
    BY <1>1, <1>3, <1>4

(* The labels JUDGE makes of what it has read.                             *)
MadeLabel(s, c) ==
  [shot |-> s, cat |-> c, path |-> Path(s, c),
   names |-> IF Path(s, c) = "free" THEN {} ELSE job[s].defs[c],
   over  |-> IF Path(s, c) = "rules" THEN job[s].rule[c].over ELSE {}]

(* JUDGE makes labels of the right type.                                   *)
LEMMA MadeLabelRec ==
  ASSUME Types, NEW s \in Judgings, job[s].pc = "read", NEW c \in Categories
  PROVE  MadeLabel(s, c) \in LabelRecs
  <1>1. job[s] \in ReadRecs
    BY JudgingAtWork
  <1>2. job[s].defs[c] \in SUBSET Names /\ job[s].rule[c] \in TreeRecs
    BY <1>1 DEF ReadRecs
  <1>3. Path(s, c) \in {"boot", "rules", "free"}
    BY DEF Path
  <1>4. Path(s, c) = "rules" => job[s].rule[c] # None
    BY DEF Path
  <1>5. (IF Path(s, c) = "rules" THEN job[s].rule[c].over ELSE {}) \in SUBSET Names
    BY <1>2, <1>4 DEF TreeRecs
  <1> QED
    BY <1>2, <1>3, <1>5 DEF MadeLabel, LabelRecs

(* The steps of JUDGE and _side_fx keep the types.                         *)
LEMMA JudgeTypes ==
  ASSUME Types, NEW s \in Judgings, (\E boot \in BOOLEAN : Judge(s, boot)) \/ JudgeStep(s)
  PROVE  Types'
  <1>0. s \in Jobs
    BY DEF Jobs
  <1>1. ASSUME job'[s] \in JudgingJobs, job' = [job EXCEPT ![s] = job'[s]], StoreTyped'
        PROVE  Types'
    BY <1>0, <1>1, JudgingRec, OneCallMoves DEF JobTyped
  <1>2. ASSUME NEW boot \in BOOLEAN, Judge(s, boot) PROVE Types'
    <2>1. job'[s] = [pc |-> "read", left |-> Active, boot |-> boot,
                     defs |-> [c \in Categories |-> {}], rule |-> [c \in Categories |-> None]]
      BY <1>0, <1>2 DEF Judge, Types
    <2>2. job'[s] \in ReadRecs
      BY <2>1 DEF ReadRecs, TreeRecs
    <2>3. job'[s] \in JudgingJobs
      BY <2>2 DEF ReadRecs, JudgingJobs
    <2> QED
      BY <1>0, <1>1, <1>2, <2>3 DEF Judge, nodes, Types, StoreTyped
  <1>3. CASE JudgeRead(s)
    <2>1. job[s] \in ReadRecs /\ At(s) \in Categories /\ Tail(job[s].left) \in Seq(Categories)
      BY <1>3, JudgingAtWork DEF JudgeRead
    <2>2. tree[At(s)] \in TreeRecs /\ Defined(At(s)) \in SUBSET Names
      BY <2>1, DefinedNames DEF Types, StoreTyped
    <2>3. job'[s] = [job[s] EXCEPT !.left = Tail(@), !.defs[At(s)] = Defined(At(s)),
                                   !.rule[At(s)] = tree[At(s)]]
      BY <1>0, <1>3 DEF JudgeRead, Types
    <2>4. job'[s] \in ReadRecs
      <3> DEFINE defs == [job[s].defs EXCEPT ![At(s)] = Defined(At(s))]
                 rule == [job[s].rule EXCEPT ![At(s)] = tree[At(s)]]
      <3>1. defs \in [Categories -> SUBSET Names] /\ rule \in [Categories -> TreeRecs]
        BY <2>1, <2>2 DEF ReadRecs
      <3>2. job'[s] = [job[s] EXCEPT !.left = Tail(@), !.defs = defs, !.rule = rule]
        BY <2>3
      <3> HIDE DEF defs, rule
      <3> QED
        BY <2>1, <3>1, <3>2 DEF ReadRecs
    <2>5. job'[s] \in JudgingJobs
      BY <2>4 DEF ReadRecs, JudgingJobs
    <2> QED
      BY <1>0, <1>1, <1>3, <2>5, ZenonT(40) DEF JudgeRead, nodes, Types, StoreTyped
  <1>4. CASE JudgeEnds(s)
    <2>1. PICK named \in SUBSET {c \in Categories : Path(s, c) = "free"} :
            job'[s] = [pc |-> "side_fx",
                       drafts |-> job[s].boot /\ \E c \in Categories : Path(s, c) = "free",
                       made |-> {MadeLabel(s, c) : c \in named \cup {c \in Categories : Path(s, c) # "free"}}]
      BY <1>0, <1>4 DEF JudgeEnds, MadeLabel, Types
    <2>2. job[s].boot \in BOOLEAN
      BY <1>4, JudgingAtWork DEF JudgeEnds, ReadRecs
    <2>3. {MadeLabel(s, c) : c \in named \cup {c \in Categories : Path(s, c) # "free"}} \in SUBSET LabelRecs
      BY <1>4, MadeLabelRec DEF JudgeEnds
    <2>4. job'[s] \in JudgingJobs
      BY <2>1, <2>2, <2>3 DEF JudgingJobs
    <2> QED
      BY <1>0, <1>1, <1>4, <2>4 DEF JudgeEnds, nodes, Types, StoreTyped
  <1>5. ASSUME NEW c \in Categories, NEW n \in Names, Draft(s, c, n) PROVE Types'
    <2>1. StoreTyped'
      BY <1>5 DEF Draft, Types, StoreTyped
    <2> QED
      BY <1>5, <2>1 DEF Draft, Types, JobTyped
  <1>6. CASE SaveLabels(s)
    <2>1. job'[s] = [pc |-> "ended"] /\ job' = [job EXCEPT ![s] = job'[s]]
      BY <1>0, <1>6 DEF SaveLabels, Types
    <2>2. job'[s] \in JudgingJobs
      BY <2>1 DEF JudgingJobs
    <2>3. job[s].made \subseteq LabelRecs
      BY <1>6, JudgingAtWork DEF SaveLabels, EffectRecs
    <2>4. StoreTyped'
      BY <1>6, <2>3 DEF SaveLabels, nodes, Types, StoreTyped
    <2> QED
      BY <1>1, <2>1, <2>2, <2>4
  <1> QED
    BY <1>2, <1>3, <1>4, <1>5, <1>6 DEF JudgeStep

(* Types is inductive.                                                     *)
LEMMA NextTypes == Types /\ [Next]_vars => Types'
  <1> SUFFICES ASSUME Types, [Next]_vars PROVE Types'
    OBVIOUS
  <1>1. CASE UNCHANGED vars
    BY <1>1 DEF vars, nodes, Types, StoreTyped, JobTyped
  <1> QED
    BY <1>1, BootstrapTypes, TrainTypes, JudgeTypes DEF Next

(* The types of the nodes, the labels and the calls.                       *)
THEOREM Typed == Spec => []Types
  BY InitTypes, NextTypes, PTL DEF Spec

(* Type correctness of nodes and labels (policy_store.py), for every instance. *)
THEOREM TypeCorrect == Spec => []TypeOK
  BY Typed, TypesTyped, PTL

-----------------------------------------------------------------------------
(* A definition, once there, is there for good or has been drafted over.   *)

StillDefined(c, n) == n \in Defined(c) \/ <<c, n>> \in drafted

(* No step takes a definition away, but a term list drafted over it, which is remembered. *)
LEMMA DefinitionsStay ==
  ASSUME Types, [Next]_vars, NEW c \in Categories, NEW n \in Names, StillDefined(c, n)
  PROVE  StillDefined(c, n)'
  <1>1. ASSUME attrs' = attrs, drafted \subseteq drafted' PROVE StillDefined(c, n)'
    BY <1>1 DEF StillDefined, Defined
  <1>2. ASSUME NEW k \in Bootstraps, AuthorAttribute(k) PROVE StillDefined(c, n)'
    <2>1. attrs'[c][n] = attrs[c][n] \/ attrs'[c][n] = Definition(k)
      BY <1>2, BootstrapAtWork DEF AuthorAttribute, Types, StoreTyped
    <2>2. Definition(k) # None /\ Definition(k).kind = "attribute_def"
      BY NoneAssumption DEF Definition
    <2> QED
      BY <1>2, <2>1, <2>2 DEF AuthorAttribute, StillDefined, Defined
  <1>3. ASSUME NEW s \in Judgings, NEW d \in Categories, NEW m \in Names, Draft(s, d, m)
        PROVE  StillDefined(c, n)'
    <2>1. CASE c = d /\ n = m
      BY <1>3, <2>1 DEF Draft, StillDefined
    <2>2. CASE ~(c = d /\ n = m)
      <3>1. attrs'[c][n] = attrs[c][n]
        BY <1>3, <2>2 DEF Draft, Types, StoreTyped
      <3> QED
        BY <1>3, <3>1 DEF Draft, StillDefined, Defined
    <2> QED
      BY <2>1, <2>2
  <1>4. ASSUME NEW k \in Bootstraps, Bootstrap(k) \/ BootstrapStep(k) \/ Die(k)
        PROVE  StillDefined(c, n)'
    BY <1>1, <1>2, <1>4 DEF Bootstrap, BootstrapStep, Die, Seed, Author, AuthorRubric, Authored,
       AuthorFails, BootstrapEnds, nodes
  <1>5. ASSUME NEW t \in Trainings, TrainAll(t) \/ TrainStep(t) PROVE StillDefined(c, n)'
    BY <1>1, <1>5 DEF TrainAll, TrainStep, TrainRead, TrainSave, TrainSkip, TrainEnds, nodes
  <1>6. ASSUME NEW s \in Judgings, (\E boot \in BOOLEAN : Judge(s, boot)) \/ JudgeStep(s)
        PROVE  StillDefined(c, n)'
    BY <1>1, <1>3, <1>6 DEF Judge, JudgeStep, JudgeRead, JudgeEnds, SaveLabels, nodes
  <1>7. CASE UNCHANGED vars
    BY <1>1, <1>7 DEF vars, nodes
  <1> QED
    BY <1>4, <1>5, <1>6, <1>7 DEF Next

(* What a tree, a training and a judging hold of a category.               *)
TreeKept(c) == tree[c] # None => \A n \in tree[c].over : StillDefined(c, n)

TrainingKept(t) ==
  job[t].pc = "save" => \A n \in job[t].over : StillDefined(At(t), n)

(* The attributes a rule tests are among those read with it.               *)
Carried(c, over, names) == \A n \in over : n \in names \/ <<c, n>> \in drafted

LabelCarried(l) == l.path = "rules" => Carried(l.cat, l.over, l.names)

JudgingCarried(s) ==
  /\ job[s].pc = "read" => \A c \in Categories :
       job[s].rule[c] # None => Carried(c, job[s].rule[c].over, job[s].defs[c])
  /\ job[s].pc = "side_fx" => \A l \in job[s].made : LabelCarried(l)

KeepInv ==
  /\ \A c \in Categories : TreeKept(c)
  /\ \A t \in Trainings : TrainingKept(t)
  /\ \A l \in labels : LabelCarried(l)
  /\ \A s \in Judgings : JudgingCarried(s)

(* At the start there is no tree and nobody has read anything.             *)
LEMMA InitKeeps == Init => KeepInv
  <1> SUFFICES ASSUME Init PROVE KeepInv
    OBVIOUS
  <1>1. \A j \in Trainings \cup Judgings : job[j].pc = "none"
    BY DEF Init, Jobs, NotBegun
  <1>2. \A l \in labels : l.path = "boot"
    BY DEF Init
  <1>3. \A c \in Categories : tree[c] = None
    BY DEF Init
  <1> QED
    BY <1>1, <1>2, <1>3 DEF KeepInv, TreeKept, TrainingKept, LabelCarried, JudgingCarried

(* More drafts, so less is asked.                                          *)
LEMMA DraftsGrow == [Next]_vars => drafted \subseteq drafted'
  BY DEF Next, vars, nodes, Bootstrap, BootstrapStep, Die, Seed, Author, AuthorRubric, AuthorAttribute,
     Authored, AuthorFails, BootstrapEnds, TrainAll, TrainStep, TrainRead, TrainSave, TrainSkip,
     TrainEnds, Judge, JudgeStep, JudgeRead, JudgeEnds, Draft, SaveLabels

(* Who moves which part of the state.                                      *)
LEMMA CallsMove ==
  ASSUME Types, [Next]_vars
  PROVE  /\ \A t \in Trainings : job'[t] = job[t] \/ TrainAll(t) \/ TrainStep(t)
         /\ \A s \in Judgings : \/ job'[s] = job[s] \/ JudgeStep(s)
                                \/ \E boot \in BOOLEAN : Judge(s, boot)
         /\ tree' = tree \/ \E t \in Trainings : TrainSave(t)
         /\ labels' = labels \/ \E s \in Judgings : SaveLabels(s)
  <1>1. ASSUME NEW k \in Bootstraps, Bootstrap(k) \/ BootstrapStep(k) \/ Die(k)
        PROVE  /\ \A j \in Jobs : j # k => job'[j] = job[j]
               /\ tree' = tree /\ labels' = labels
    BY <1>1 DEF Types, Bootstrap, BootstrapStep, Die, Seed, Author, AuthorRubric, AuthorAttribute,
       Authored, AuthorFails, NextCategory, BootstrapEnds, nodes
  <1>2. ASSUME NEW t \in Trainings, TrainAll(t) \/ TrainStep(t)
        PROVE  /\ \A j \in Jobs : j # t => job'[j] = job[j]
               /\ tree' = tree \/ TrainSave(t)
               /\ labels' = labels
    BY <1>2 DEF Types, TrainAll, TrainStep, TrainRead, TrainSave, TrainSkip, TrainEnds, nodes
  <1>3. ASSUME NEW s \in Judgings, (\E boot \in BOOLEAN : Judge(s, boot)) \/ JudgeStep(s)
        PROVE  /\ \A j \in Jobs : j # s => job'[j] = job[j]
               /\ tree' = tree
               /\ labels' = labels \/ SaveLabels(s)
    BY <1>3 DEF Types, Judge, JudgeStep, JudgeRead, JudgeEnds, Draft, SaveLabels, nodes
  <1>4. CASE UNCHANGED vars
    BY <1>4 DEF vars, nodes
  <1> QED
    BY <1>1, <1>2, <1>3, <1>4, JobsAssumption DEF Next, Jobs

(* What a training holds stays defined: it read defined attributes, and they stay. *)
LEMMA TrainingKeeps ==
  ASSUME Types, KeepInv, [Next]_vars, NEW t \in Trainings
  PROVE  TrainingKept(t)'
  <1> SUFFICES ASSUME job'[t].pc = "save", NEW n \in job'[t].over PROVE StillDefined(At(t), n)'
    BY DEF TrainingKept
  <1>0. t \in Jobs
    BY DEF Jobs
  <1>1. CASE job'[t] = job[t]
    <2>1. At(t)' = At(t) /\ At(t) \in Categories /\ n \in Names
      BY <1>1, TrainingAtWork DEF At
    <2>2. StillDefined(At(t), n)
      BY <1>1 DEF KeepInv, TrainingKept
    <2>3. \A c \in Categories : StillDefined(c, n) => StillDefined(c, n)'
      BY <2>1, DefinitionsStay
    <2> QED
      BY <2>1, <2>2, <2>3 DEF StillDefined, Defined
  <1>2. CASE TrainRead(t)
    <2>1. PICK over \in SUBSET Defined(At(t)) : job'[t] = [job[t] EXCEPT !.pc = "save", !.over = over]
      BY <1>0, <1>2 DEF TrainRead, Types
    <2>2. job'[t].over = over /\ job'[t].left = job[t].left
      BY <1>2, <2>1, TrainingAtWork DEF TrainRead
    <2> QED
      BY <1>2, <2>2 DEF TrainRead, nodes, At, StillDefined, Defined
  <1>3. CASE TrainAll(t) \/ TrainSave(t) \/ TrainSkip(t) \/ TrainEnds(t)
    <2>1. CASE TrainAll(t) \/ TrainEnds(t)
      <3>1. job'[t].pc \in {"train", "ended"}
        BY <1>0, <2>1 DEF Types, TrainAll, TrainEnds
      <3> QED
        BY <3>1
    <2>2. CASE TrainSave(t) \/ TrainSkip(t)
      <3>1. job'[t] = [job[t] EXCEPT !.pc = "train", !.left = Tail(@)]
        BY <1>0, <2>2 DEF Types, TrainSave, TrainSkip
      <3>2. job'[t].pc = "train"
        BY <2>2, <3>1, TrainingAtWork DEF TrainSave, TrainSkip
      <3> QED
        BY <3>2
    <2> QED
      BY <1>3, <2>1, <2>2
  <1> QED
    BY <1>1, <1>2, <1>3, CallsMove DEF TrainStep

(* What the trees test stays defined; a training that saves brings what it held. *)
LEMMA TreesKeep ==
  ASSUME Types, KeepInv, [Next]_vars, NEW c \in Categories
  PROVE  TreeKept(c)'
  <1> SUFFICES ASSUME tree'[c] # None, NEW n \in tree'[c].over PROVE StillDefined(c, n)'
    BY DEF TreeKept
  <1>1. CASE tree'[c] = tree[c]
    <2>1. StillDefined(c, n) /\ n \in Names
      BY <1>1 DEF KeepInv, TreeKept, Types, StoreTyped, TreeRecs
    <2> QED
      BY <2>1, DefinitionsStay
  <1>2. ASSUME NEW t \in Trainings, TrainSave(t), tree'[c] # tree[c] PROVE StillDefined(c, n)'
    <2>1. c = At(t) /\ tree'[c] = [over |-> job[t].over]
      BY <1>2 DEF TrainSave, Types, StoreTyped
    <2>2. n \in job[t].over /\ n \in Names
      BY <1>2, <2>1, TrainingAtWork DEF TrainSave
    <2>3. StillDefined(c, n)
      BY <1>2, <2>1, <2>2 DEF TrainSave, KeepInv, TrainingKept
    <2> QED
      BY <2>2, <2>3, DefinitionsStay
  <1> QED
    BY <1>1, <1>2, CallsMove

(* A read category carries its tree, and goes on doing so as terms are drafted. *)
LEMMA CarriedStays ==
  ASSUME [Next]_vars, NEW c, NEW over, NEW names, Carried(c, over, names)
  PROVE  Carried(c, over, names)'
  BY DraftsGrow DEF Carried

(* A tree that is read is carried by the definitions read with it.         *)
LEMMA ReadCarries ==
  ASSUME Types, KeepInv, NEW c \in Categories, tree[c] # None
  PROVE  Carried(c, tree[c].over, Defined(c))
  BY DEF KeepInv, TreeKept, StillDefined, Carried

(* What a judging has read carries the trees it has read.                  *)
LEMMA JudgingKeeps ==
  ASSUME Types, KeepInv, [Next]_vars, NEW s \in Judgings
  PROVE  JudgingCarried(s)'
  <1>0. s \in Jobs
    BY DEF Jobs
  <1>1. ASSUME job'[s] = job[s] PROVE JudgingCarried(s)'
    BY <1>1, CarriedStays DEF KeepInv, JudgingCarried, LabelCarried
  <1>2. ASSUME NEW boot \in BOOLEAN, Judge(s, boot) PROVE JudgingCarried(s)'
    <2>1. job'[s].pc = "read" /\ \A c \in Categories : job'[s].rule[c] = None
      BY <1>0, <1>2 DEF Judge, Types
    <2> QED
      BY <2>1 DEF JudgingCarried
  <1>3. CASE JudgeRead(s)
    <2>1. /\ job[s] \in ReadRecs /\ At(s) \in Categories /\ job[s].pc = "read"
          /\ drafted' = drafted
      BY <1>3, JudgingAtWork DEF JudgeRead
    <2>2. job'[s] = [job[s] EXCEPT !.left = Tail(@), !.defs[At(s)] = Defined(At(s)),
                                   !.rule[At(s)] = tree[At(s)]]
      BY <1>0, <1>3 DEF JudgeRead, Types
    <2>3. /\ job'[s].pc = "read"
          /\ job'[s].defs[At(s)] = Defined(At(s)) /\ job'[s].rule[At(s)] = tree[At(s)]
          /\ \A c \in Categories : c # At(s) =>
               job'[s].defs[c] = job[s].defs[c] /\ job'[s].rule[c] = job[s].rule[c]
      BY <2>1, <2>2 DEF ReadRecs
    <2>4. ASSUME NEW c \in Categories, job'[s].rule[c] # None
          PROVE  Carried(c, job'[s].rule[c].over, job'[s].defs[c])
      BY <2>1, <2>3, <2>4, ReadCarries DEF KeepInv, JudgingCarried
    <2> QED
      BY <2>1, <2>3, <2>4 DEF JudgingCarried, Carried
  <1>4. CASE JudgeEnds(s)
    <2>1. PICK named \in SUBSET {c \in Categories : Path(s, c) = "free"} :
            job'[s] = [pc |-> "side_fx",
                       drafts |-> job[s].boot /\ \E c \in Categories : Path(s, c) = "free",
                       made |-> {MadeLabel(s, c) : c \in named \cup {c \in Categories : Path(s, c) # "free"}}]
      BY <1>0, <1>4 DEF JudgeEnds, MadeLabel, Types
    <2>2. ASSUME NEW c \in Categories PROVE LabelCarried(MadeLabel(s, c))
      BY <1>4 DEF JudgeEnds, LabelCarried, MadeLabel, Path, KeepInv, JudgingCarried
    <2>3. \A l \in job'[s].made : LabelCarried(l)
      BY <2>1, <2>2
    <2> QED
      BY <1>4, <2>1, <2>3 DEF JudgeEnds, JudgingCarried, LabelCarried, Carried
  <1>5. CASE SaveLabels(s)
    <2>1. job'[s].pc = "ended"
      BY <1>0, <1>5 DEF SaveLabels, Types
    <2> QED
      BY <2>1 DEF JudgingCarried
  <1>6. ASSUME NEW c \in Categories, NEW n \in Names, Draft(s, c, n) PROVE JudgingCarried(s)'
    BY <1>1, <1>6 DEF Draft
  <1> QED
    BY <1>1, <1>2, <1>3, <1>4, <1>5, <1>6, CallsMove DEF JudgeStep

(* So do the labels it makes of that.                                      *)
LEMMA LabelsKeep ==
  ASSUME Types, KeepInv, [Next]_vars, NEW l \in labels'
  PROVE  LabelCarried(l)'
  <1>1. LabelCarried(l)
    <2>1. CASE l \in labels
      BY <2>1 DEF KeepInv
    <2>2. ASSUME NEW s \in Judgings, SaveLabels(s), l \notin labels PROVE LabelCarried(l)
      BY <2>2 DEF SaveLabels, KeepInv, JudgingCarried
    <2> QED
      BY <2>1, <2>2, CallsMove
  <1> QED
    BY <1>1, CarriedStays DEF LabelCarried

(* The inductive invariant: trees, jobs and labels of JUDGE and train_decision_tree. *)
THEOREM Kept == Spec => []KeepInv
  <1>1. Types /\ KeepInv /\ [Next]_vars => KeepInv'
    BY TreesKeep, TrainingKeeps, LabelsKeep, JudgingKeeps DEF KeepInv
  <1> QED
    BY <1>1, InitKeeps, Typed, PTL DEF Spec

(* A tree tests only attributes its category defines, whatever bootstrap
   does after the training (train_decision_tree, author_category_policy).  *)
THEOREM TreesOverDefinitions == Spec => []TreeOverDefined
  <1>1. KeepInv => TreeOverDefined
    BY DEF KeepInv, TreeKept, StillDefined, TreeOverDefined
  <1> QED
    BY <1>1, Kept, PTL

(* A label a tree scored carries the attributes of that tree, however its
   judging overlaps with authoring and training (_judge, _build_label).    *)
THEOREM LabelsCarryTrees == Spec => []LabelCarriesTree
  <1>1. KeepInv => LabelCarriesTree
    BY DEF KeepInv, LabelCarried, Carried, LabelCarriesTree
  <1> QED
    BY <1>1, Kept, PTL

-----------------------------------------------------------------------------
(* What a bootstrap reports.  Owned says that what k wrote to c is there,  *)
(* unless someone else has written to c since k seeded it.                 *)

Written(k, c, n) == attrs[c][n] = Definition(k) \/ <<c, n>> \in drafted

Owned(k, c, names) == author[c] = k =>
  rubric[c] \in {k, Pegi} /\ \A n \in names : Written(k, c, n)

(* The attributes of the answer that have been written so far.             *)
Done(k) == {n \in Names : n \in ToSet(job[k].said) /\ n \notin ToSet(job[k].names)}

Reported(k) ==
  /\ job[k].pc # "none" => \A a \in job[k].authored : Owned(k, a.cat, a.names)
  /\ job[k].pc = "seed" => job[k].authored = {}
  /\ job[k].pc = "attrs" => Owned(k, At(k), Done(k))
  /\ job[k].pc = "rubric" => job[k].names = job[k].said /\ job[k].text \in {k, "none"}

ReportInv == \A k \in Bootstraps : Reported(k)

(* At the start nothing was reported.                                      *)
LEMMA InitReport == Init => ReportInv
  BY DEF Init, Jobs, NotBegun, ReportInv, Reported

(* Only the seeding by k itself makes k the author.                        *)
LEMMA OwnedStays ==
  ASSUME Types, ReportInv, [Next]_vars, NEW k \in Bootstraps, ~Seed(k),
         NEW c \in Categories, NEW names \in SUBSET Names, Owned(k, c, names)
  PROVE  Owned(k, c, names)'
  <1>1. ASSUME rubric' = rubric, attrs' = attrs, author' = author, drafted \subseteq drafted'
        PROVE  Owned(k, c, names)'
    BY <1>1 DEF Owned, Written
  <1>2. k # None
    BY NoneAssumption
  <1>3. ASSUME NEW j \in Bootstraps, Seed(j) PROVE Owned(k, c, names)'
    <2>1. j # k
      BY <1>3
    <2>2. author'[c] = k => author[c] = k /\ rubric'[c] = rubric[c]
      BY <1>3, <2>1, BootstrapAtWork DEF Seed, Types, StoreTyped
    <2> QED
      BY <1>3, <2>2 DEF Seed, Owned, Written
  <1>4. ASSUME NEW j \in Bootstraps, AuthorRubric(j) PROVE Owned(k, c, names)'
    <2>1. At(j) \in Categories /\ job[j] \in AuthoringRecs
      BY <1>4, BootstrapAtWork DEF AuthorRubric
    <2>2. author'[c] = k => author[c] = k /\ (c = At(j) => j = k)
      BY <1>2, <1>4, <2>1 DEF AuthorRubric, Writes, Types, StoreTyped
    <2>3. rubric'[c] = rubric[c] \/ (c = At(j) /\ rubric'[c] = RubricText(j))
      BY <1>4, <2>1 DEF AuthorRubric, Types, StoreTyped
    <2>4. RubricText(j) \in {j, Pegi}
      BY <1>4 DEF AuthorRubric, ReportInv, Reported, RubricText
    <2> QED
      BY <1>4, <2>2, <2>3, <2>4 DEF AuthorRubric, Owned, Written
  <1>5. ASSUME NEW j \in Bootstraps, AuthorAttribute(j) PROVE Owned(k, c, names)'
    <2>1. At(j) \in Categories
      BY <1>5, BootstrapAtWork DEF AuthorAttribute
    <2>2. author'[c] = k => author[c] = k /\ (c = At(j) => j = k)
      BY <1>2, <1>5, <2>1 DEF AuthorAttribute, Writes, Types, StoreTyped
    <2>3. \A n \in Names : attrs'[c][n] = attrs[c][n] \/ (c = At(j) /\ attrs'[c][n] = Definition(j))
      BY <1>5, <2>1 DEF AuthorAttribute, Types, StoreTyped
    <2> QED
      BY <1>5, <2>2, <2>3 DEF AuthorAttribute, Owned, Written
  <1>6. ASSUME NEW s \in Judgings, NEW d \in Categories, NEW m \in Names, Draft(s, d, m)
        PROVE  Owned(k, c, names)'
    <2>1. \A n \in Names : attrs'[c][n] = attrs[c][n] \/ (c = d /\ n = m)
      BY <1>6 DEF Draft, Types, StoreTyped
    <2> QED
      BY <1>6, <2>1 DEF Draft, Owned, Written
  <1>7. ASSUME NEW j \in Bootstraps, Bootstrap(j) \/ BootstrapStep(j) \/ Die(j)
        PROVE  Owned(k, c, names)'
    BY <1>1, <1>3, <1>4, <1>5, <1>7 DEF Bootstrap, BootstrapStep, Die, Author, Authored,
       AuthorFails, BootstrapEnds, nodes
  <1>8. ASSUME NEW t \in Trainings, TrainAll(t) \/ TrainStep(t) PROVE Owned(k, c, names)'
    BY <1>1, <1>8 DEF TrainAll, TrainStep, TrainRead, TrainSave, TrainSkip, TrainEnds, nodes
  <1>9. ASSUME NEW s \in Judgings, (\E boot \in BOOLEAN : Judge(s, boot)) \/ JudgeStep(s)
        PROVE  Owned(k, c, names)'
    BY <1>1, <1>6, <1>9 DEF Judge, JudgeStep, JudgeRead, JudgeEnds, SaveLabels, nodes
  <1>10. CASE UNCHANGED vars
    BY <1>1, <1>10 DEF vars, nodes
  <1> QED
    BY <1>7, <1>8, <1>9, <1>10 DEF Next

(* A bootstrap's own steps, and those of the others.                       *)
LEMMA BootstrapMoves ==
  ASSUME Types, [Next]_vars, NEW k \in Bootstraps
  PROVE  job'[k] = job[k] \/ Bootstrap(k) \/ BootstrapStep(k) \/ Die(k)
  <1>0. k \in Jobs
    BY DEF Jobs
  <1>1. ASSUME NEW j \in Bootstraps, j # k, Bootstrap(j) \/ BootstrapStep(j) \/ Die(j)
        PROVE  job'[k] = job[k]
    BY <1>0, <1>1 DEF Types, Bootstrap, BootstrapStep, Die, Seed, Author, AuthorRubric, AuthorAttribute,
       Authored, AuthorFails, NextCategory, BootstrapEnds
  <1>2. ASSUME NEW t \in Trainings, TrainAll(t) \/ TrainStep(t) PROVE job'[k] = job[k]
    BY <1>0, <1>2, JobsAssumption DEF Types, TrainAll, TrainStep, TrainRead, TrainSave, TrainSkip, TrainEnds
  <1>3. ASSUME NEW s \in Judgings, (\E boot \in BOOLEAN : Judge(s, boot)) \/ JudgeStep(s)
        PROVE  job'[k] = job[k]
    BY <1>0, <1>3, JobsAssumption DEF Types, Judge, JudgeStep, JudgeRead, JudgeEnds, Draft, SaveLabels
  <1> QED
    BY <1>1, <1>2, <1>3 DEF Next, vars

(* The request to the policy model, seen from the call.                    *)
LEMMA AuthorMoves ==
  ASSUME Types, NEW k \in Bootstraps, Author(k)
  PROVE  /\ job[k].pc = "author" /\ job'[k].pc = "rubric" /\ job'[k].names = job'[k].said
         /\ job'[k].text \in {k, "none"} /\ job'[k].authored = job[k].authored
  <1>0. k \in Jobs
    BY DEF Jobs
  <1>1. job[k] \in AuthoringRecs
    BY BootstrapAtWork DEF Author
  <1>2. ASSUME NEW names \in Replies, NEW text \in {k, "none"},
               job' = [job EXCEPT ![k].pc = "rubric", ![k].names = names, ![k].said = names,
                                  ![k].text = text]
        PROVE  /\ job'[k].pc = "rubric" /\ job'[k].names = job'[k].said
               /\ job'[k].text \in {k, "none"} /\ job'[k].authored = job[k].authored
    <2>1. job'[k] = [job[k] EXCEPT !.pc = "rubric", !.names = names, !.said = names, !.text = text]
      BY <1>0, <1>2 DEF Types
    <2> QED
      BY <1>1, <2>1 DEF AuthoringRecs
  <1> QED
    BY <1>2 DEF Author

(* Every step of a call, and of the others, leaves what it reports true.   *)
LEMMA ReportKeeps ==
  ASSUME Types, ReportInv, [Next]_vars, NEW k \in Bootstraps
  PROVE  Reported(k)'
  <1>0. k \in Jobs
    BY DEF Jobs
  <1>1. Reported(k)
    BY DEF ReportInv
  (* What was reported before stays reported.                              *)
  <1>2. ASSUME job[k].pc \in {"author", "rubric", "attrs"}
        PROVE  \A a \in job[k].authored : Owned(k, a.cat, a.names)'
    <2>1. \A a \in job[k].authored : a.cat \in Categories /\ a.names \in SUBSET Names
      BY <1>2, BootstrapAtWork DEF AuthoringRecs, Summaries
    <2>2. ~Seed(k)
      BY <1>2 DEF Seed
    <2> QED
      BY <1>1, <1>2, <2>1, <2>2, OwnedStays DEF Reported
  <1>3. CASE job'[k] = job[k]
    <2>1. ~Seed(k) \/ job[k].pc = "seed"
      BY DEF Seed
    <2>2. job[k].pc = "attrs" => Owned(k, At(k), Done(k))'
      <3>1. SUFFICES ASSUME job[k].pc = "attrs" PROVE Owned(k, At(k), Done(k))'
        OBVIOUS
      <3>2. At(k) \in Categories /\ Done(k) \in SUBSET Names /\ ~Seed(k)
        BY <3>1, BootstrapAtWork DEF Done, Seed
      <3>3. At(k)' = At(k) /\ Done(k)' = Done(k)
        BY <1>3 DEF At, Done
      <3>4. \A c \in Categories, names \in SUBSET Names : Owned(k, c, names) => Owned(k, c, names)'
        BY <3>2, OwnedStays
      <3> QED
        BY <1>1, <3>1, <3>2, <3>3, <3>4 DEF Reported, Owned, Written
    <2>3. job[k].pc # "none" => \A a \in job[k].authored : Owned(k, a.cat, a.names)'
      <3>1. CASE job[k].pc \in {"ended", "died"}
        <4>1. JobTyped(k)
          BY <1>0 DEF Types
        <4>2. \A a \in job[k].authored : a.cat \in Categories /\ a.names \in SUBSET Names
          BY <3>1, <4>1 DEF JobTyped, JobRec, NotBegun, BootstrapJobs, Summaries
        <4>3. ~Seed(k)
          BY <3>1 DEF Seed
        <4> QED
          BY <1>1, <3>1, <4>2, <4>3, OwnedStays DEF Reported
      <3>2. CASE job[k].pc = "seed"
        BY <1>1, <3>2 DEF Reported
      <3>3. job[k].pc \in {"none", "seed", "author", "rubric", "attrs", "ended", "died"}
        <4>1. JobTyped(k)
          BY <1>0 DEF Types
        <4> QED
          BY <4>1 DEF JobTyped, JobRec, NotBegun, BootstrapJobs
      <3> QED
        BY <1>2, <3>1, <3>2, <3>3
    <2> QED
      BY <1>1, <1>3, <2>2, <2>3 DEF Reported
  <1>4. CASE Bootstrap(k)
    <2>1. job'[k].pc = "seed" /\ job'[k].authored = {}
      BY <1>0, <1>4 DEF Bootstrap, Types
    <2> QED
      BY <2>1 DEF Reported
  <1>5. CASE Seed(k)
    <2>1. job'[k].pc \in {"seed", "author"} /\ job'[k].authored = {}
      <3>1. job[k] \in AuthoringRecs /\ job[k].pc = "seed" /\ job[k].authored = {}
        BY <1>1, <1>5, BootstrapAtWork DEF Seed, Reported
      <3>2. CASE job[k].left = <<>>
        <4>1. job'[k] = [job[k] EXCEPT !.pc = "author", !.left = Active]
          BY <1>0, <1>5, <3>2 DEF Seed, Types
        <4> QED
          BY <3>1, <4>1 DEF AuthoringRecs
      <3>3. CASE job[k].left # <<>>
        <4>1. job'[k] = [job[k] EXCEPT !.left = Tail(@)]
          BY <1>0, <1>5, <3>3 DEF Seed, Types
        <4> QED
          BY <3>1, <4>1 DEF AuthoringRecs
      <3> QED
        BY <3>2, <3>3
    <2> QED
      BY <2>1 DEF Reported
  <1>6. CASE Author(k)
    <2>1. \A a \in job'[k].authored : Owned(k, a.cat, a.names)'
      BY <1>2, <1>6, AuthorMoves
    <2> QED
      BY <1>6, <2>1, AuthorMoves DEF Reported
  <1>7. CASE AuthorRubric(k)
    <2>1. job[k] \in AuthoringRecs /\ At(k) \in Categories
      BY <1>7, BootstrapAtWork DEF AuthorRubric
    <2>2. job'[k] = [job[k] EXCEPT !.pc = "attrs"]
      BY <1>0, <1>7 DEF AuthorRubric, Types
    <2>3. /\ job'[k].pc = "attrs" /\ job'[k].authored = job[k].authored
          /\ job'[k].names = job[k].said /\ job'[k].said = job[k].said /\ At(k)' = At(k)
      BY <1>1, <1>7, <2>1, <2>2 DEF AuthorRubric, Reported, AuthoringRecs, At
    <2>4. Done(k)' = {}
      BY <2>3 DEF Done
    <2>5. rubric'[At(k)] \in {k, Pegi}
      BY <1>1, <1>7, <2>1 DEF AuthorRubric, RubricText, Reported, Types, StoreTyped
    <2>6. Owned(k, At(k), Done(k))'
      BY <2>3, <2>4, <2>5 DEF Owned
    <2> QED
      BY <1>2, <1>7, <2>3, <2>6 DEF AuthorRubric, Reported, Owned, Written
  <1>8. CASE AuthorAttribute(k)
    <2>1. /\ job[k] \in AuthoringRecs /\ At(k) \in Categories
          /\ Head(job[k].names) \in Names /\ Tail(job[k].names) \in Seq(Names)
      BY <1>8, BootstrapAtWork, HeadTailProperties DEF AuthorAttribute, AuthoringRecs
    <2>2. job'[k] = [job[k] EXCEPT !.names = Tail(@)]
      BY <1>0, <1>8 DEF AuthorAttribute, Types
    <2>3. /\ job'[k].pc = "attrs" /\ job'[k].authored = job[k].authored
          /\ job'[k].names = Tail(job[k].names) /\ job'[k].said = job[k].said /\ At(k)' = At(k)
      BY <1>8, <2>1, <2>2 DEF AuthorAttribute, AuthoringRecs, At
    <2>4. \A n \in Done(k)' : n \in Done(k) \/ n = Head(job[k].names)
      <3>1. ASSUME NEW n \in ToSet(job[k].names), n # Head(job[k].names)
            PROVE  n \in ToSet(Tail(job[k].names))
        <4>1. job[k].names \in Seq(Names) /\ job[k].names # <<>>
          BY <1>8, <2>1 DEF AuthorAttribute, AuthoringRecs
        <4>2. PICK i \in 1..Len(job[k].names) : n = job[k].names[i]
          BY <4>1, LenProperties DEF ToSet
        <4>3. i - 1 \in 1..Len(Tail(job[k].names)) /\ n = Tail(job[k].names)[i - 1]
          BY <3>1, <4>1, <4>2, HeadTailProperties
        <4> QED
          BY <2>1, <4>3, LenProperties DEF ToSet
      <3> QED
        BY <2>3, <3>1 DEF Done
    <2>5. Owned(k, At(k), Done(k))
      BY <1>1, <1>8 DEF AuthorAttribute, Reported
    <2>c. PICK c \in Categories, m \in Names, D \in SUBSET Names :
            c = At(k) /\ m = Head(job[k].names) /\ D = Done(k)
      BY <2>1 DEF Done
    <2>6. author'[c] = k => rubric'[c] \in {k, Pegi} /\ \A n \in D \cup {m} : Written(k, c, n)'
      <3>1. ~Seed(k)
        BY <1>8 DEF AuthorAttribute, Seed
      <3>2. \A b \in Categories, names \in SUBSET Names : Owned(k, b, names) => Owned(k, b, names)'
        BY <3>1, OwnedStays
      <3>3. attrs'[c][m] = Definition(k)
        BY <1>8, <2>1, <2>c DEF AuthorAttribute, Types, StoreTyped
      <3>4. (author[c] = k => rubric[c] \in {k, Pegi} /\ \A n \in D : Written(k, c, n))
              => (author'[c] = k => rubric'[c] \in {k, Pegi} /\ \A n \in D : Written(k, c, n)')
        BY <3>2 DEF Owned
      <3>5. author[c] = k => rubric[c] \in {k, Pegi} /\ \A n \in D : Written(k, c, n)
        BY <2>5, <2>c DEF Owned
      <3>6. Written(k, c, m)'
        BY <3>3 DEF Written
      <3> QED
        BY <3>4, <3>5, <3>6
    <2>7. Owned(k, At(k), Done(k))'
      <3>1. \A n \in Done(k)' : n \in D \cup {m}
        BY <2>4, <2>c
      <3>2. At(k)' = c
        BY <2>3, <2>c
      <3> HIDE DEF Done
      <3> QED
        BY <2>6, <3>1, <3>2 DEF Owned, Written
    <2> QED
      BY <1>2, <1>8, <2>3, <2>7 DEF AuthorAttribute, Reported, Owned, Written
  <1>9. CASE Authored(k) \/ AuthorFails(k)
    <2>1. job[k] \in AuthoringRecs /\ At(k) \in Categories /\ job[k].pc \in {"author", "rubric", "attrs"}
      BY <1>9, BootstrapAtWork DEF Authored, AuthorFails, Authoring
    <2>n. PICK c \in Categories, told \in SUBSET Names : c = At(k) /\ told = ToSet(job[k].said)
      <3>1. job[k].said \in Seq(Names)
        BY <2>1 DEF AuthoringRecs
      <3>2. \A i \in DOMAIN job[k].said : job[k].said[i] \in Names
        BY <3>1, LenProperties, ElementOfSeq
      <3> QED
        BY <2>1, <3>2 DEF ToSet
    <2>2. /\ job'[k].pc = "author"
          /\ \A a \in job'[k].authored :
               a \in job[k].authored \/ (Authored(k) /\ a = [cat |-> c, names |-> told])
      <3>1. PICK done \in BOOLEAN : job' = NextCategory(k, done) /\ (done => Authored(k))
        BY <1>9 DEF Authored, AuthorFails
      <3> DEFINE sums == IF done THEN job[k].authored \cup {[cat |-> c, names |-> told]}
                         ELSE job[k].authored
                 fails == IF done THEN job[k].failed ELSE job[k].failed \cup {c}
      <3>2. job'[k] = [job[k] EXCEPT !.pc = "author", !.left = Tail(@), !.authored = sums,
                                     !.failed = fails]
        BY <1>0, <2>n, <3>1 DEF NextCategory, Types
      <3>3. \A a \in sums : a \in job[k].authored \/ (Authored(k) /\ a = [cat |-> c, names |-> told])
        BY <3>1
      <3> HIDE DEF fails, sums
      <3> QED
        BY <2>1, <3>2, <3>3 DEF AuthoringRecs
    <2>3. Authored(k) => Owned(k, c, told)'
      <3>1. SUFFICES ASSUME Authored(k) PROVE Owned(k, c, told)'
        OBVIOUS
      <3>2. Owned(k, c, Done(k))
        BY <1>1, <2>n, <3>1 DEF Authored, Reported
      <3>3. told \subseteq Done(k)
        <4>1. job[k].names = <<>>
          BY <3>1 DEF Authored
        <4>2. ToSet(<<>>) = {}
          BY DEF ToSet
        <4> QED
          BY <2>n, <4>1, <4>2 DEF Done
      <3>4. /\ author' = author /\ rubric' = rubric /\ attrs' = attrs /\ drafted' = drafted
        BY <3>1 DEF Authored, nodes
      <3> QED
        BY <3>2, <3>3, <3>4 DEF Owned, Written
    <2>4. \A a \in job'[k].authored : Owned(k, a.cat, a.names)'
      <3>1. ASSUME NEW a \in job'[k].authored, a = [cat |-> c, names |-> told], Authored(k)
            PROVE  Owned(k, a.cat, a.names)'
        BY <2>3, <3>1 DEF Owned, Written
      <3> QED
        BY <1>2, <2>1, <2>2, <3>1
    <2> QED
      BY <2>2, <2>4 DEF Reported, Owned, Written
  <1>10. CASE BootstrapEnds(k) \/ Die(k)
    <2>1. PICK end \in {"ended", "died"} :
            job'[k] = [pc |-> end, authored |-> job[k].authored, failed |-> job[k].failed]
      BY <1>0, <1>10 DEF BootstrapEnds, Die, Types
    <2>2. job'[k].pc \in {"ended", "died"} /\ job'[k].authored = job[k].authored
      BY <2>1
    <2>3. CASE job[k].pc = "seed"
      BY <1>1, <2>2, <2>3 DEF Reported
    <2>4. CASE job[k].pc \in {"author", "rubric", "attrs"}
      BY <1>2, <2>2, <2>4 DEF Reported, Owned, Written
    <2> QED
      BY <1>10, <2>3, <2>4 DEF BootstrapEnds, Die
  <1> QED
    BY <1>3, <1>4, <1>5, <1>6, <1>7, <1>8, <1>9, <1>10, BootstrapMoves DEF BootstrapStep

(* The inductive invariant of the summaries of run_bootstrap.              *)
LEMMA ReportAlways == Spec => []ReportInv
  <1>1. Types /\ ReportInv /\ [Next]_vars => ReportInv'
    BY ReportKeeps DEF ReportInv
  <1> QED
    BY <1>1, InitReport, Typed, PTL DEF Spec

(* SummaryTells: a bootstrap never reports what it has not done, whatever  *)
(* other bootstraps, trainings and judgings do meanwhile.                  *)
THEOREM SummariesTell == Spec => []SummaryTells
  <1>1. ReportInv => SummaryTells
    BY DEF ReportInv, Reported, Owned, Written, SummaryTells
  <1> QED
    BY <1>1, ReportAlways, PTL

=============================================================================
