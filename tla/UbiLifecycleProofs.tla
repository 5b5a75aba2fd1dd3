------------------------- MODULE UbiLifecycleProofs -------------------------
(***************************************************************************)
(* The safety properties of UbiLifecycle, for any disks, base bdevs,       *)
(* threads, requests and failures.                                         *)
(*                                                                         *)
(* IInv says what a disk holds at each stage (StageInv), what its channels *)
(* hold (ChannelInv), and whom it owes an answer (NameInv, AnswerOwed).    *)
(* A step moves one disk, or unregisters those with one base bdev or name. *)
(***************************************************************************)
EXTENDS UbiLifecycle, TLAPS

----------------------------------------------------------------------------
\* What a step may do to the parts of the invariant.

\* StageInv, when the step leaves all disks but d alone.
LEMMA StageNext ==
    ASSUME StageInv, NEW d \in Disk,
           \A e \in Disk \ {d} :
             /\ stage'[e] = stage[e] /\ alive'[e] = alive[e] /\ desc'[e] = desc[e]
             /\ e \in list' <=> e \in list
             /\ claim'[e.base] = e <=> claim[e.base] = e
             /\ answer'[e] = "unsent" => answer[e] = "unsent",
           /\ answer'[d] = "unsent" => stage'[d] = "new"
           /\ alive'[d] <=> Opened(d)' \/ stage'[d] = "destructed"
           /\ d \in list' <=> Listed(d)'
           /\ desc'[d] = "open" <=> Opened(d)'
           /\ claim'[d.base] = d <=> Opened(d)'
    PROVE  StageInv'
BY DEF StageInv, Opened, Listed

\* ChannelInv, when only the stages change: a disk with channels keeps them.
LEMMA ChannelNext ==
    ASSUME ChannelInv, UNCHANGED channels,
           \A e \in Disk : Listed(e) => Listed(e)' \/ stage'[e] = "destructed",
           \A e \in Disk : stage[e] = "destructed" => stage'[e] = "destructed",
           \A r \in base_ch' :
             \/ r \in base_ch
             \/ \E e \in Disk : (stage'[e] = "reading" \/ e \in refused') /\ r = <<e, None>>,
           refused \subseteq refused',
           \A e \in Disk : stage[e] = "reading" =>
                             stage'[e] = "reading" \/ <<e, None>> \notin base_ch'
    PROVE  ChannelInv'
<1>1. \A e \in Disk : \A t \in Thread : chan'[e][t] = chan[e][t]
  BY Zenon DEF channels
<1>2. \A e \in Disk : \A t \in Thread :
        chan'[e][t] # "none" => Listed(e)' \/ stage'[e] = "destructed"
  BY <1>1 DEF ChannelInv, Listed
<1>3. \A r \in held' : \E e \in Disk, t \in Thread : chan'[e][t] # "none" /\ r \in Resources(e, t)
  BY <1>1, Zenon DEF ChannelInv, channels
<1>4. ASSUME NEW r \in base_ch'
      PROVE  \/ \E e \in Disk, t \in Thread : chan'[e][t] # "none" /\ r = <<e, t>>
             \/ \E e \in Disk : (stage'[e] = "reading" \/ e \in refused') /\ r = <<e, None>>
  <2>1. CASE r \in base_ch
    BY <1>1, <1>4, <2>1 DEF ChannelInv
  <2>2. CASE r \notin base_ch
    BY <1>4, <2>2, Zenon
  <2>. QED BY <2>1, <2>2, Zenon
<1>. QED BY <1>2, <1>3, <1>4, Zenon DEF ChannelInv, Resources

\* NameInv and AnswerOwed, when the deletions and the disks that owe them an answer
\* are left alone, and no disk is registered under a name that is taken.
LEMMA NameNext ==
    ASSUME NameInv, AnswerOwed, TypeOK, UNCHANGED asked,
           \A e \in Disk : stage'[e] = "unregistering" /\ asked[e] # None <=>
                           stage[e] = "unregistering" /\ asked[e] # None,
           \A q \in Deletion : answer'[q] = answer[q],
           \A e \in Disk : answer'[e] = "waiting" <=> stage'[e] = "reading",
           \A e \in Disk : stage'[e] \in {"new", "reading", "registered"} =>
                           stage[e] \in {"new", "reading", "registered"},
           \A e, f \in Disk : Listed(e)' /\ Listed(f)' /\ e.name = f.name => e = f
    PROVE  NameInv' /\ AnswerOwed'
<1>1. \A e \in Disk : asked'[e] = asked[e]
  BY Zenon
<1>2. \A e \in Disk : asked[e] # None => asked[e] \in Deletion
  BY DEF TypeOK
<1>3. NameInv'
  BY <1>1, <1>2 DEF NameInv
<1>4. \A q \in Deletion : q # None
  BY LifecycleAssumption, Zenon
<1>5. \A q \in Deletion : {e \in Disk : stage'[e] = "unregistering" /\ asked'[e] = q}
                        = {e \in Disk : stage[e] = "unregistering" /\ asked[e] = q}
  BY <1>1, <1>4
<1>6. AnswerOwed'
  BY <1>5 DEF AnswerOwed
<1>. QED BY <1>3, <1>6, Zenon

----------------------------------------------------------------------------
\* Creation.

\* A creation that fails: the disk has claimed its base bdev, or has not come so far.
LEMMA GiveUp ==
    ASSUME IInv, NEW d \in Disk, NEW open \in BOOLEAN, stage[d] \in {"new", "reading"},
           open => claim[d.base] \in {d, None}, ~ open => stage[d] = "new",
           stage' = [stage EXCEPT ![d] = "gone"], alive' = [alive EXCEPT ![d] = FALSE],
           desc' = [desc EXCEPT ![d] = IF open THEN "closed" ELSE @],
           claim' = IF open THEN [claim EXCEPT ![d.base] = None] ELSE claim,
           Answers(d, "error"), UNCHANGED <<list, asked, channels>>,
           \A r \in base_ch' : r \in base_ch \/ (d \in refused' /\ r = <<d, None>>),
           refused \subseteq refused',
           stage[d] = "reading" => <<d, None>> \notin base_ch'
    PROVE  IInv'
<1>0. TypeOK /\ StageInv /\ ChannelInv /\ NameInv /\ AnswerOwed
  BY Zenon DEF IInv
<1>1. d.base \in Base /\ None \notin Disk
  BY LifecycleAssumption, Zenon
<1>2. TypeOK'
  BY <1>0, <1>1 DEF TypeOK, Answers, channels
<1>3. /\ stage'[d] = "gone" /\ ~ alive'[d] /\ desc'[d] # "open" /\ answer'[d] = "error"
      /\ d \notin list' /\ claim'[d.base] # d
  <2>1. ~ Listed(d) /\ (stage[d] = "new" => ~ Opened(d))
    BY DEF Opened, Listed
  <2>2. d \notin list' /\ (stage[d] = "new" => desc[d] # "open" /\ claim[d.base] # d)
    BY <1>0, <2>1, Zenon DEF StageInv
  <2>3. claim'[d.base] # d
    BY <1>0, <1>1, <2>2, Zenon DEF TypeOK
  <2>4. stage'[d] = "gone" /\ ~ alive'[d] /\ desc'[d] # "open" /\ answer'[d] = "error"
    BY <1>0, <2>2 DEF TypeOK, Answers
  <2>. QED BY <2>2, <2>3, <2>4, Zenon
<1>4. \A e \in Disk \ {d} :
        /\ stage'[e] = stage[e] /\ alive'[e] = alive[e] /\ desc'[e] = desc[e]
        /\ answer'[e] = answer[e]
  BY <1>0 DEF TypeOK, Answers
<1>5. \A e \in Disk \ {d} : claim'[e.base] = e <=> claim[e.base] = e
  BY <1>0, <1>1, LifecycleAssumption DEF TypeOK
<1>6. StageInv'
  <2>1. ~ Opened(d)' /\ ~ Listed(d)' /\ stage'[d] # "destructed"
    BY <1>3 DEF Opened, Listed
  <2>2. \A e \in Disk \ {d} :
          /\ stage'[e] = stage[e] /\ alive'[e] = alive[e] /\ desc'[e] = desc[e]
          /\ e \in list' <=> e \in list
          /\ claim'[e.base] = e <=> claim[e.base] = e
          /\ answer'[e] = "unsent" => answer[e] = "unsent"
    BY <1>4, <1>5, Zenon
  <2>. QED BY <1>0, <1>3, <2>1, <2>2, StageNext, Zenon
<1>7. ChannelInv'
  <2>1. \A e \in Disk : Listed(e) => Listed(e)' \/ stage'[e] = "destructed"
    BY <1>4 DEF Listed
  <2>2. \A e \in Disk : stage[e] = "destructed" => stage'[e] = "destructed"
    BY <1>4
  <2>3. \A e \in Disk : stage[e] = "reading" =>
                            stage'[e] = "reading" \/ <<e, None>> \notin base_ch'
    BY <1>4
  <2>4. \A r \in base_ch' :
          \/ r \in base_ch
          \/ \E e \in Disk : (stage'[e] = "reading" \/ e \in refused') /\ r = <<e, None>>
    BY Zenon
  <2>5. UNCHANGED channels
    BY Zenon
  <2>. QED BY <1>0, <2>1, <2>2, <2>3, <2>4, <2>5, ChannelNext, Zenon
<1>8. NameInv' /\ AnswerOwed'
  <2>1. \A q \in Deletion : answer'[q] = answer[q]
    BY <1>0, LifecycleAssumption DEF TypeOK, Answers
  <2>. QED BY <1>0, <1>3, <1>4, <2>1, NameNext DEF Listed, NameInv, AnswerOwed
<1>. QED BY <1>2, <1>6, <1>7, <1>8, Zenon DEF IInv

LEMMA CreateNext ==
    ASSUME IInv, NEW d \in Disk, rpc_bdev_ubi_create(d)
    PROVE  IInv'
<1>0. TypeOK /\ StageInv /\ ChannelInv /\ NameInv /\ AnswerOwed
  BY Zenon DEF IInv
<1>1. d.base \in Base /\ None \notin Disk
  BY LifecycleAssumption, Zenon
<1>2. answer[d] = "unsent" /\ stage[d] = "new" /\ UNCHANGED <<asked, channels>>
  BY <1>0 DEF rpc_bdev_ubi_create, StageInv
<1>3. CASE Answers(d, "error") /\ UNCHANGED <<disks, claim, base_ch, refused>>
  <2>1. TypeOK'
    BY <1>0, <1>2, <1>3 DEF TypeOK, Answers, disks, channels
  <2>2. StageInv'
    BY <1>0, <1>3 DEF TypeOK, Answers, StageInv, disks, Opened, Listed
  <2>3. ChannelInv'
    BY <1>0, <1>2, <1>3, ChannelNext DEF disks, Listed
  <2>4. \A q \in Deletion : answer'[q] = answer[q]
    BY <1>0, <1>3, LifecycleAssumption DEF TypeOK, Answers
  <2>5. \A e \in Disk : answer'[e] = "waiting" <=> stage'[e] = "reading"
    BY <1>0, <1>2, <1>3 DEF TypeOK, Answers, disks, AnswerOwed
  <2>6. NameInv' /\ AnswerOwed'
    BY <1>0, <1>2, <1>3, <2>4, <2>5, NameNext DEF disks, Listed, NameInv
  <2>. QED BY <2>1, <2>2, <2>3, <2>6, Zenon DEF IInv
<1>4. CASE ubi_finish_create(d, -1, FALSE) /\ UNCHANGED <<base_ch, refused>>
  <2>1. /\ stage' = [stage EXCEPT ![d] = "gone"] /\ alive' = [alive EXCEPT ![d] = FALSE]
        /\ desc' = [desc EXCEPT ![d] = IF FALSE THEN "closed" ELSE @]
        /\ claim' = IF FALSE THEN [claim EXCEPT ![d.base] = None] ELSE claim
        /\ Answers(d, "error") /\ UNCHANGED list
    BY <1>4 DEF ubi_finish_create
  <2>2. stage[d] # "reading" /\ stage[d] \in {"new", "reading"}
    BY <1>2
  <2>3. base_ch' = base_ch /\ refused' = refused /\ UNCHANGED <<list, asked, channels>>
    BY <1>2, <1>4, <2>1, Zenon
  <2>. QED BY <1>2, <2>1, <2>2, <2>3, GiveUp, Zenon
<1>5. CASE configure_base_bdev(d) /\ StartFails(d) /\ ubi_finish_create(d, -1, TRUE)
  <2>1. /\ stage' = [stage EXCEPT ![d] = "gone"] /\ alive' = [alive EXCEPT ![d] = FALSE]
        /\ desc' = [desc EXCEPT ![d] = IF TRUE THEN "closed" ELSE @]
        /\ claim' = IF TRUE THEN [claim EXCEPT ![d.base] = None] ELSE claim
        /\ Answers(d, "error") /\ UNCHANGED list
    BY <1>5 DEF ubi_finish_create
  <2>2. stage[d] # "reading" /\ stage[d] \in {"new", "reading"} /\ claim[d.base] \in {d, None}
    BY <1>2, <1>5 DEF configure_base_bdev
  <2>3. /\ \A c \in base_ch' : c \in base_ch \/ (d \in refused' /\ c = <<d, None>>)
        /\ refused \subseteq refused' /\ UNCHANGED <<list, asked, channels>>
    BY <1>2, <1>5, <2>1, Zenon DEF StartFails
  <2>. QED BY <1>2, <2>1, <2>2, <2>3, GiveUp, Zenon
<1>6. CASE /\ configure_base_bdev(d)
           /\ stage' = [stage EXCEPT ![d] = "reading"]
           /\ alive' = [alive EXCEPT ![d] = TRUE]
           /\ desc' = [desc EXCEPT ![d] = "open"] /\ claim' = [claim EXCEPT ![d.base] = d]
           /\ base_ch' = base_ch \cup {<<d, None>>}
           /\ Answers(d, "waiting") /\ UNCHANGED <<list, refused>>
  <2>1. TypeOK'
    <3>1. claim' \in [Base -> Disk \cup {None}]
      BY <1>0, <1>1, <1>6 DEF TypeOK
    <3>2. answer' \in [Disk \cup Deletion -> {"unsent", "waiting", "ok", "error"}]
      BY <1>0, <1>6 DEF TypeOK, Answers
    <3>3. /\ stage' \in [Disk -> {"new", "reading", "registered", "unregistering", "destructed", "gone"}]
          /\ desc' \in [Disk -> {"none", "open", "closing", "closed"}]
      BY <1>0, <1>6 DEF TypeOK
    <3>4. alive' \in [Disk -> BOOLEAN]
      BY <1>0, <1>6 DEF TypeOK
    <3>. QED BY <1>0, <1>2, <1>6, <3>1, <3>2, <3>3, <3>4, Zenon DEF TypeOK, channels
  <2>2. /\ stage'[d] = "reading" /\ alive'[d] /\ desc'[d] = "open" /\ answer'[d] = "waiting"
        /\ d \notin list' /\ claim'[d.base] = d
    <3>1. stage'[d] = "reading" /\ alive'[d] /\ desc'[d] = "open" /\ answer'[d] = "waiting"
      BY <1>0, <1>6 DEF TypeOK, Answers
    <3>2. ~ Listed(d)
      BY <1>2 DEF Listed
    <3>3. d \notin list'
      BY <1>0, <1>6, <3>2, Zenon DEF StageInv
    <3>4. claim'[d.base] = d
      BY <1>0, <1>1, <1>6, Zenon DEF TypeOK
    <3>. QED BY <3>1, <3>3, <3>4, Zenon
  <2>3. \A e \in Disk \ {d} :
          /\ stage'[e] = stage[e] /\ alive'[e] = alive[e] /\ desc'[e] = desc[e]
          /\ answer'[e] = answer[e]
    BY <1>0, <1>6 DEF TypeOK, Answers
  <2>4. \A e \in Disk \ {d} : claim'[e.base] = e <=> claim[e.base] = e
    BY <1>0, <1>1, <1>6, LifecycleAssumption DEF TypeOK, configure_base_bdev
  <2>5. StageInv'
    <3>1. Opened(d)' /\ ~ Listed(d)' /\ stage'[d] # "destructed"
      BY <2>2 DEF Opened, Listed
    <3>2. \A e \in Disk \ {d} :
            /\ stage'[e] = stage[e] /\ alive'[e] = alive[e] /\ desc'[e] = desc[e]
            /\ e \in list' <=> e \in list
            /\ claim'[e.base] = e <=> claim[e.base] = e
            /\ answer'[e] = "unsent" => answer[e] = "unsent"
      BY <1>6, <2>3, <2>4, Zenon
    <3>. QED BY <1>0, <2>2, <3>1, <3>2, StageNext
  <2>6. ChannelInv'
    <3>1. \A e \in Disk : Listed(e) => Listed(e)' \/ stage'[e] = "destructed"
      BY <1>2, <2>3 DEF Listed
    <3>2. \A e \in Disk : stage[e] = "destructed" => stage'[e] = "destructed"
      BY <1>2, <2>3
    <3>3. \A e \in Disk : stage[e] = "reading" => stage'[e] = "reading"
      BY <1>2, <2>3
    <3>4. \A c \in base_ch' :
            \/ c \in base_ch
            \/ \E e \in Disk : (stage'[e] = "reading" \/ e \in refused') /\ c = <<e, None>>
      BY <1>6, <2>2, Zenon
    <3>5. UNCHANGED channels /\ refused \subseteq refused'
      BY <1>2, <1>6, Zenon
    <3>. QED BY <1>0, <3>1, <3>2, <3>3, <3>4, <3>5, ChannelNext, Zenon
  <2>7. \A q \in Deletion : answer'[q] = answer[q]
    BY <1>0, <1>6, LifecycleAssumption DEF TypeOK, Answers
  <2>8. NameInv' /\ AnswerOwed'
    BY <1>0, <1>2, <2>2, <2>3, <2>7, NameNext DEF Listed, NameInv, AnswerOwed
  <2>. QED BY <2>1, <2>5, <2>6, <2>8, Zenon DEF IInv
<1>. QED BY <1>3, <1>4, <1>5, <1>6, Zenon DEF rpc_bdev_ubi_create, bdev_ubi_create

LEMMA ReadMetadataNext ==
    ASSUME IInv, NEW d \in Disk, ubi_finish_read_metadata(d)
    PROVE  IInv'
<1>0. TypeOK /\ StageInv /\ ChannelInv /\ NameInv /\ AnswerOwed
  BY Zenon DEF IInv
<1>1. d.base \in Base /\ None \notin Disk
  BY LifecycleAssumption, Zenon
<1>2. /\ stage[d] = "reading" /\ base_ch' = base_ch \ {<<d, None>>}
      /\ UNCHANGED <<asked, channels, refused>>
  BY Zenon DEF ubi_finish_read_metadata, history
<1>3. claim[d.base] = d
  BY <1>0, <1>2 DEF StageInv, Opened
<1>4. PICK status : ubi_finish_create(d, status, TRUE)
  BY Zenon DEF ubi_finish_read_metadata
<1>5. CASE status = 0 /\ ~ NameTaken(d)
  <2>1. /\ stage' = [stage EXCEPT ![d] = "registered"] /\ list' = list \cup {d}
        /\ Answers(d, "ok") /\ UNCHANGED <<alive, desc, claim>>
    BY <1>4, <1>5, Zenon DEF ubi_finish_create
  <2>2. TypeOK'
    BY <1>0, <1>2, <2>1 DEF TypeOK, Answers, channels
  <2>3. stage'[d] = "registered" /\ answer'[d] = "ok"
    BY <1>0, <2>1 DEF TypeOK, Answers
  <2>4. \A e \in Disk \ {d} : stage'[e] = stage[e] /\ answer'[e] = answer[e]
    BY <1>0, <2>1 DEF TypeOK, Answers
  <2>5. StageInv'
    <3>1. alive'[d] /\ desc'[d] = "open" /\ claim'[d.base] = d
      BY <1>0, <1>2, <2>1 DEF StageInv, Opened
    <3>. QED BY <1>0, <2>1, <2>3, <2>4, <3>1, StageNext DEF Opened, Listed
  <2>6. ChannelInv'
    BY <1>0, <1>2, <2>3, <2>4, ChannelNext DEF Listed
  <2>7. \A q \in Deletion : answer'[q] = answer[q]
    BY <1>0, <2>1, LifecycleAssumption DEF TypeOK, Answers
  <2>8. \A e, f \in Disk : Listed(e)' /\ Listed(f)' /\ e.name = f.name => e = f
    BY <1>0, <1>5, <2>3, <2>4 DEF NameInv, Listed, NameTaken
  <2>9. NameInv' /\ AnswerOwed'
    BY <1>0, <1>2, <2>3, <2>4, <2>7, <2>8, NameNext DEF AnswerOwed
  <2>. QED BY <2>2, <2>5, <2>6, <2>9, Zenon DEF IInv
<1>6. CASE ~ (status = 0 /\ ~ NameTaken(d))
  <2>1. /\ stage' = [stage EXCEPT ![d] = "gone"]
        /\ alive' = [alive EXCEPT ![d] = FALSE]
        /\ desc' = [desc EXCEPT ![d] = "closed"]
        /\ claim' = [claim EXCEPT ![d.base] = None]
        /\ Answers(d, "error") /\ UNCHANGED list
    BY <1>4, <1>6 DEF ubi_finish_create
  <2>2. /\ desc' = [desc EXCEPT ![d] = IF TRUE THEN "closed" ELSE @]
        /\ claim' = IF TRUE THEN [claim EXCEPT ![d.base] = None] ELSE claim
    BY <2>1
  <2>3. stage[d] \in {"new", "reading"} /\ claim[d.base] \in {d, None}
    BY <1>2, <1>3
  <2>4. /\ \A c \in base_ch' : c \in base_ch /\ c # <<d, None>>
        /\ refused \subseteq refused' /\ UNCHANGED <<list, asked, channels>>
    BY <1>2, <2>1, Zenon
  <2>. QED BY <2>1, <2>2, <2>3, <2>4, GiveUp, Zenon
<1>. QED BY <1>5, <1>6, Zenon

----------------------------------------------------------------------------
\* I/O channels.

\* A channel changes nothing of its disk.
LEMMA DisksUnchanged ==
    ASSUME IInv, UNCHANGED <<disks, rpcs, claim>>,
           chan' \in [Disk -> [Thread -> {"none", "open", "closing"}]]
    PROVE  TypeOK' /\ StageInv' /\ NameInv' /\ AnswerOwed'
<1>1. TypeOK'
  BY DEF IInv, TypeOK, disks, rpcs
<1>2. StageInv'
  BY Zenon DEF IInv, StageInv, Opened, Listed, disks, rpcs
<1>3. NameInv' /\ AnswerOwed'
  BY DEF IInv, NameInv, AnswerOwed, Listed, disks, rpcs
<1>. QED BY <1>1, <1>2, <1>3, Zenon

\* ChannelInv, when one channel comes, goes, or begins to go.
LEMMA OneChannelNext ==
    ASSUME IInv, NEW d \in Disk, NEW t \in Thread, UNCHANGED <<stage, refused>>,
           NEW s \in {"none", "open", "closing"}, chan' = [chan EXCEPT ![d][t] = s],
           s # "none" => Listed(d) \/ stage[d] = "destructed",
           \A r \in held' : r \in held \/ (r \in Resources(d, t) /\ s # "none"),
           \A r \in base_ch' : r \in base_ch \/ (r = <<d, t>> /\ s # "none"),
           s = "none" => /\ \A r \in held' : r \notin Resources(d, t)
                         /\ \A r \in base_ch' : r # <<d, t>>
    PROVE  ChannelInv' /\ chan' \in [Disk -> [Thread -> {"none", "open", "closing"}]]
<1>0. TypeOK /\ ChannelInv
  BY Zenon DEF IInv
<1>1. chan' \in [Disk -> [Thread -> {"none", "open", "closing"}]]
  BY <1>0 DEF TypeOK
<1>2. chan'[d][t] = s
  BY <1>0 DEF TypeOK
<1>3. \A e \in Disk, u \in Thread : e # d \/ u # t => chan'[e][u] = chan[e][u]
  BY <1>0 DEF TypeOK
<1>4. \A e \in Disk : \A u \in Thread :
        chan'[e][u] # "none" => Listed(e)' \/ stage'[e] = "destructed"
  BY <1>0, <1>2, <1>3 DEF ChannelInv, Listed
<1>5. ASSUME NEW r \in held'
      PROVE  \E e \in Disk, u \in Thread : chan'[e][u] # "none" /\ r \in Resources(e, u)
  <2>1. CASE r \in Resources(d, t)
    BY <1>2, <1>5, <2>1, Zenon
  <2>2. CASE r \notin Resources(d, t)
    BY <1>0, <1>3, <1>5, <2>2 DEF ChannelInv
  <2>. QED BY <2>1, <2>2, Zenon
<1>6. ASSUME NEW r \in base_ch'
      PROVE  \/ \E e \in Disk, u \in Thread : chan'[e][u] # "none" /\ r = <<e, u>>
             \/ \E e \in Disk : (stage'[e] = "reading" \/ e \in refused') /\ r = <<e, None>>
  <2>1. CASE r = <<d, t>>
    BY <1>2, <1>6, <2>1, Zenon
  <2>2. CASE r # <<d, t>>
    BY <1>0, <1>3, <1>6, <2>2 DEF ChannelInv
  <2>. QED BY <2>1, <2>2, Zenon
<1>7. ChannelInv'
  BY <1>4, <1>5, <1>6, Zenon DEF ChannelInv, Resources
<1>. QED BY <1>1, <1>7, Zenon

LEMMA ChannelStep ==
    ASSUME IInv, NEW d \in Disk, NEW t \in Thread,
           ubi_create_channel_cb(d, t) \/ PutChannel(d, t) \/ ubi_destroy_channel_cb(d, t)
    PROVE  IInv'
<1>0. TypeOK /\ ChannelInv
  BY Zenon DEF IInv
<1>1. UNCHANGED <<disks, rpcs, claim>> /\ UNCHANGED <<stage, refused>>
  BY Zenon DEF ubi_create_channel_cb, PutChannel, ubi_destroy_channel_cb, disks, bases, history
<1>2. ChannelInv' /\ chan' \in [Disk -> [Thread -> {"none", "open", "closing"}]]
  <2>1. CASE ubi_create_channel_cb(d, t)
    <3>1. CASE UNCHANGED channels /\ base_ch' = Undone(d, t)
      <4>1. UNCHANGED <<chan, held, base_ch, stage, refused>>
        BY <1>1, <3>1, Zenon DEF channels, Undone
      <4>. QED BY <1>0, <4>1 DEF ChannelInv, TypeOK, Listed, Resources
    <3>2. CASE /\ chan' = [chan EXCEPT ![d][t] = "open"] /\ held' = held \cup Resources(d, t)
               /\ base_ch' = base_ch \cup {<<d, t>>}
      <4>1. Listed(d)
        BY <2>1 DEF ubi_create_channel_cb, Listed
      <4>. QED BY <1>1, <3>2, <4>1, OneChannelNext, Zenon
    <3>. QED BY <2>1, <3>1, <3>2, Zenon DEF ubi_create_channel_cb
  <2>2. CASE PutChannel(d, t)
    <3>1. chan' = [chan EXCEPT ![d][t] = "closing"] /\ UNCHANGED <<held, base_ch>>
      BY <2>2, Zenon DEF PutChannel, bases
    <3>2. Listed(d) \/ stage[d] = "destructed"
      BY <1>0, <2>2 DEF PutChannel, ChannelInv
    <3>. QED BY <1>1, <3>1, <3>2, OneChannelNext, Zenon
  <2>3. CASE ubi_destroy_channel_cb(d, t)
    <3>1. /\ chan' = [chan EXCEPT ![d][t] = "none"]
          /\ held' = held \ Resources(d, t) /\ base_ch' = base_ch \ {<<d, t>>}
      BY <2>3, Zenon DEF ubi_destroy_channel_cb
    <3>. QED BY <1>1, <3>1, OneChannelNext, Zenon
  <2>. QED BY <2>1, <2>2, <2>3, Zenon
<1>. QED BY <1>1, <1>2, DisksUnchanged, Zenon DEF IInv

----------------------------------------------------------------------------
\* Deletion.

\* Unregistering disks leaves all but NameInv and AnswerOwed as they are.
LEMMA UnregisterNext ==
    ASSUME IInv, NEW D, Unregister(D), UNCHANGED <<alive, desc, list, channels, claim, base_ch, refused>>,
           answer' \in [Disk \cup Deletion -> {"unsent", "waiting", "ok", "error"}],
           asked' \in [Disk -> Deletion \cup {None}],
           \A e \in Disk : answer'[e] = answer[e]
    PROVE  /\ TypeOK' /\ StageInv' /\ ChannelInv'
           /\ \A e \in Disk : /\ Listed(e)' <=> Listed(e)
                              /\ stage'[e] = IF e \in D /\ stage[e] = "registered"
                                             THEN "unregistering" ELSE stage[e]
<1>0. TypeOK /\ StageInv /\ ChannelInv
  BY Zenon DEF IInv
<1>1. \A e \in Disk : stage'[e] = IF e \in D /\ stage[e] = "registered"
                                  THEN "unregistering" ELSE stage[e]
  BY Zenon DEF Unregister
<1>2. stage' \in [Disk -> {"new", "reading", "registered", "unregistering", "destructed", "gone"}]
  BY <1>0 DEF Unregister, TypeOK
<1>3. TypeOK'
  BY <1>0, <1>2 DEF TypeOK, channels
<1>4. \A e \in Disk : /\ Listed(e)' <=> Listed(e)
                      /\ stage'[e] \in {"reading", "destructed", "new"} \/ stage[e] \in {"reading", "destructed", "new"}
                           => stage'[e] = stage[e]
  BY <1>1 DEF Listed
<1>5. \A e \in Disk : Opened(e)' <=> Opened(e)
  BY <1>4 DEF Opened
<1>6. StageInv'
  BY <1>0, <1>4, <1>5 DEF StageInv
<1>7. ChannelInv'
  BY <1>0, <1>4, ChannelNext, Zenon
<1>. QED BY <1>1, <1>3, <1>4, <1>6, <1>7, Zenon

LEMMA DeleteNext ==
    ASSUME IInv, NEW q \in Deletion, rpc_bdev_ubi_delete(q)
    PROVE  IInv'
<1>0. TypeOK /\ StageInv /\ ChannelInv /\ NameInv /\ AnswerOwed
  BY Zenon DEF IInv
<1>1. /\ UNCHANGED <<alive, desc, list, channels, claim, base_ch, refused>>
      /\ answer[q] = "unsent" /\ q \notin Disk /\ q # None
  BY LifecycleAssumption, Zenon DEF rpc_bdev_ubi_delete, bases, history
<1>2. ASSUME NEW how \in {"error", "waiting"}, Answers(q, how)
      PROVE  /\ answer' \in [Disk \cup Deletion -> {"unsent", "waiting", "ok", "error"}]
             /\ \A e \in Disk : answer'[e] = answer[e]
             /\ answer'[q] = how
             /\ \A p \in Deletion \ {q} : answer'[p] = answer[p]
  BY <1>0, <1>1, <1>2 DEF Answers, TypeOK
<1>3. \A e \in Disk : asked[e] # q
  BY <1>0, <1>1 DEF NameInv
<1>4. DEFINE D == {d \in Disk : d.name = q.name /\ stage[d] = "registered"}
<1>5. CASE /\ Answers(q, "error")
           /\ stage' = stage /\ asked' = asked
  <2>1. Unregister({})
    <3>1. stage = [d \in Disk |-> stage[d]]
      BY <1>0 DEF TypeOK
    <3>. QED BY <1>5, <3>1 DEF Unregister
  <2>2. /\ TypeOK' /\ StageInv' /\ ChannelInv'
        /\ \A e \in Disk : Listed(e)' <=> Listed(e)
    <3>1. asked' \in [Disk -> Deletion \cup {None}]
      BY <1>0, <1>5, Zenon DEF TypeOK
    <3>. QED BY <1>1, <1>2, <1>5, <2>1, <3>1, UnregisterNext, Zenon
  <2>3. \A e \in Disk : asked[e] # None => asked[e] \in Deletion
    BY <1>0 DEF TypeOK
  <2>4. NameInv'
    BY <1>0, <1>2, <1>3, <1>5, <2>2, <2>3 DEF NameInv
  <2>5. AnswerOwed'
    BY <1>0, <1>1, <1>2, <1>3, <1>5 DEF AnswerOwed
  <2>. QED BY <2>2, <2>4, <2>5, Zenon DEF IInv
<1>6. CASE bdev_ubi_delete(q)
  <2>1. /\ Unregister(D) /\ asked' = [d \in Disk |-> IF d \in D THEN q ELSE asked[d]]
        /\ Answers(q, IF D = {} THEN "error" ELSE "waiting")
    BY <1>6, Zenon DEF bdev_ubi_delete, UnknownName
  <2>. HIDE DEF D
  <2>2. /\ answer' \in [Disk \cup Deletion -> {"unsent", "waiting", "ok", "error"}]
        /\ \A e \in Disk : answer'[e] = answer[e]
        /\ answer'[q] = IF D = {} THEN "error" ELSE "waiting"
        /\ \A p \in Deletion \ {q} : answer'[p] = answer[p]
    BY <1>2, <2>1
  <2>3. asked' \in [Disk -> Deletion \cup {None}]
    BY <1>0, <2>1 DEF TypeOK
  <2>4. /\ TypeOK' /\ StageInv' /\ ChannelInv'
        /\ \A e \in Disk : /\ Listed(e)' <=> Listed(e)
                           /\ stage'[e] = IF e \in D /\ stage[e] = "registered"
                                          THEN "unregistering" ELSE stage[e]
    BY <1>1, <2>1, <2>2, <2>3, UnregisterNext, Zenon
  <2>5. \A e \in D : /\ e \in Disk /\ stage[e] = "registered" /\ stage'[e] = "unregistering"
                     /\ asked'[e] = q /\ asked[e] = None
    BY <1>0, <2>1, <2>4 DEF D, NameInv
  <2>6. \A e \in Disk \ D : stage'[e] = stage[e] /\ asked'[e] = asked[e]
    BY <2>1, <2>4
  <2>7. NameInv'
    <3>1. \A e \in Disk : asked[e] # None => asked[e] \in Deletion
      BY <1>0 DEF TypeOK
    <3>. QED BY <1>0, <1>3, <2>2, <2>4, <2>5, <2>6, <3>1 DEF NameInv
  <2>8. \A d, e \in D : d = e
    BY <1>0 DEF NameInv, Listed, D
  <2>9. \A e \in Disk : answer'[e] = "waiting" <=> stage'[e] = "reading"
    BY <1>0, <2>2, <2>5, <2>6 DEF AnswerOwed
  <2>10. ASSUME NEW p \in Deletion \ {q}
         PROVE  \A e \in Disk : stage'[e] = "unregistering" /\ asked'[e] = p <=>
                                stage[e] = "unregistering" /\ asked[e] = p
    BY <1>1, <2>5, <2>6, LifecycleAssumption
  <2>11. \A e \in Disk : stage'[e] = "unregistering" /\ asked'[e] = q <=> e \in D
    BY <1>3, <2>5, <2>6
  <2>12. AnswerOwed'
    <3>1. ASSUME NEW p \in Deletion \ {q}
          PROVE  {e \in Disk : stage'[e] = "unregistering" /\ asked'[e] = p}
               = {e \in Disk : stage[e] = "unregistering" /\ asked[e] = p}
      BY <2>10, <3>1
    <3>2. {e \in Disk : stage'[e] = "unregistering" /\ asked'[e] = q} = D
      BY <2>5, <2>11
    <3>. QED BY <1>0, <2>2, <2>8, <2>9, <3>1, <3>2 DEF AnswerOwed
  <2>. QED BY <2>4, <2>7, <2>12, Zenon DEF IInv
<1>. QED BY <1>5, <1>6, Zenon DEF rpc_bdev_ubi_delete

LEMMA DestructNext ==
    ASSUME IInv, NEW d \in Disk, ubi_destruct(d)
    PROVE  IInv'
<1>0. TypeOK /\ StageInv /\ ChannelInv /\ NameInv /\ AnswerOwed
  BY Zenon DEF IInv
<1>1. d.base \in Base /\ None \notin Disk
  BY LifecycleAssumption, Zenon
<1>2. /\ stage[d] = "unregistering" /\ UNCHANGED <<asked, channels, base_ch, refused, alive>>
      /\ list' = list \ {d} /\ claim' = [claim EXCEPT ![d.base] = None]
      /\ stage' = [stage EXCEPT ![d] = "destructed"]
  BY Zenon DEF ubi_destruct, UnregistersIoDevice, history
<1>3. PICK how \in {"closing", "closed"} : desc' = [desc EXCEPT ![d] = how]
  BY Zenon DEF ubi_destruct
<1>4. answer' = IF asked[d] = None THEN answer ELSE [answer EXCEPT ![asked[d]] = "ok"]
  BY Zenon DEF ubi_destruct, Answers
<1>5. /\ answer' \in [Disk \cup Deletion -> {"unsent", "waiting", "ok", "error"}]
      /\ \A e \in Disk : answer'[e] = answer[e]
      /\ \A q \in Deletion : answer'[q] = IF asked[d] = q THEN "ok" ELSE answer[q]
  BY <1>0, <1>4, LifecycleAssumption DEF TypeOK
<1>6. TypeOK'
  BY <1>0, <1>2, <1>3, <1>5, Zenon DEF TypeOK, channels
<1>7. /\ stage'[d] = "destructed" /\ desc'[d] # "open" /\ d \notin list' /\ claim'[d.base] # d
      /\ alive'[d] /\ answer'[d] # "unsent"
  BY <1>0, <1>1, <1>2, <1>3, <1>5 DEF TypeOK, StageInv, Opened, Listed
<1>8. \A e \in Disk \ {d} :
        /\ stage'[e] = stage[e] /\ alive'[e] = alive[e] /\ desc'[e] = desc[e]
        /\ e \in list' <=> e \in list
        /\ answer'[e] = "unsent" => answer[e] = "unsent"
  BY <1>0, <1>2, <1>3, <1>5 DEF TypeOK
<1>9. \A e \in Disk \ {d} : claim'[e.base] = e <=> claim[e.base] = e
  <2>1. claim[d.base] = d
    BY <1>0, <1>2 DEF StageInv, Opened, Listed
  <2>. QED BY <1>0, <1>1, <1>2, <2>1, LifecycleAssumption DEF TypeOK
<1>10. StageInv'
  <2>1. ~ Opened(d)' /\ ~ Listed(d)'
    BY <1>7 DEF Opened, Listed
  <2>2. /\ answer'[d] = "unsent" => stage'[d] = "new"
        /\ alive'[d] <=> Opened(d)' \/ stage'[d] = "destructed"
        /\ d \in list' <=> Listed(d)'
        /\ desc'[d] = "open" <=> Opened(d)'
        /\ claim'[d.base] = d <=> Opened(d)'
    BY <1>7, <2>1, Zenon
  <2>3. \A e \in Disk \ {d} :
          /\ stage'[e] = stage[e] /\ alive'[e] = alive[e] /\ desc'[e] = desc[e]
          /\ e \in list' <=> e \in list
          /\ claim'[e.base] = e <=> claim[e.base] = e
          /\ answer'[e] = "unsent" => answer[e] = "unsent"
    BY <1>8, <1>9, Zenon
  <2>. QED BY <1>0, <2>2, <2>3, StageNext, Zenon
<1>11. ChannelInv'
  <2>1. \A e \in Disk : Listed(e) => Listed(e)' \/ stage'[e] = "destructed"
    BY <1>7, <1>8 DEF Listed
  <2>2. \A e \in Disk : stage[e] = "destructed" => stage'[e] = "destructed"
    BY <1>7, <1>8, Zenon
  <2>3. \A e \in Disk : stage[e] = "reading" => stage'[e] = "reading"
    BY <1>2, <1>8
  <2>. QED BY <1>0, <1>2, <2>1, <2>2, <2>3, ChannelNext, Zenon
<1>12. NameInv'
  <2>1. \A e \in Disk : asked[e] # None => asked[e] \in Deletion
    BY <1>0 DEF TypeOK
  <2>. QED BY <1>0, <1>2, <1>5, <1>7, <1>8, <2>1 DEF NameInv, Listed
<1>13. ASSUME NEW q \in Deletion
       PROVE  LET Owing == {e \in Disk : stage'[e] = "unregistering" /\ asked'[e] = q}
              IN  /\ answer'[q] = "waiting" <=> Owing # {}
                  /\ \A e, f \in Owing : e = f
  <2>1. CASE asked[d] = q
    BY <1>0, <1>2, <1>5, <1>7, <1>8, <1>13, <2>1 DEF AnswerOwed
  <2>2. CASE asked[d] # q
    <3>1. {e \in Disk : stage'[e] = "unregistering" /\ asked'[e] = q}
        = {e \in Disk : stage[e] = "unregistering" /\ asked[e] = q}
      BY <1>2, <1>7, <1>8, <2>2
    <3>. QED BY <1>0, <1>5, <1>13, <2>2, <3>1 DEF AnswerOwed
  <2>. QED BY <2>1, <2>2, Zenon
<1>14. AnswerOwed'
  <2>1. \A e \in Disk : answer'[e] = "waiting" <=> stage'[e] = "reading"
    BY <1>0, <1>2, <1>5, <1>7, <1>8 DEF AnswerOwed
  <2>. QED BY <1>13, <2>1, Zenon DEF AnswerOwed
<1>. QED BY <1>6, <1>10, <1>11, <1>12, <1>14, Zenon DEF IInv

LEMMA CloseBaseNext ==
    ASSUME IInv, NEW d \in Disk, ubi_close_base_bdev(d)
    PROVE  IInv'
<1>0. TypeOK /\ StageInv /\ ChannelInv /\ NameInv /\ AnswerOwed
  BY Zenon DEF IInv
<1>1. /\ desc[d] = "closing" /\ desc' = [desc EXCEPT ![d] = "closed"]
      /\ UNCHANGED <<stage, alive, list, answer, asked, chan, held, claim, base_ch, refused>>
  BY Zenon DEF ubi_close_base_bdev, rpcs, channels, bases, history
<1>2. TypeOK' /\ \A e \in Disk : desc'[e] = "open" <=> desc[e] = "open"
  BY <1>0, <1>1 DEF TypeOK
<1>3. StageInv'
  BY <1>0, <1>1, <1>2, Zenon DEF StageInv, Opened, Listed
<1>4. ChannelInv'
  <2>1. \A e \in Disk : Listed(e)' <=> Listed(e)
    BY <1>1, Zenon DEF Listed
  <2>2. UNCHANGED channels /\ UNCHANGED <<stage, base_ch, refused>>
    BY <1>1, Zenon DEF channels
  <2>. QED BY <1>0, <2>1, <2>2, ChannelNext, Zenon
<1>5. NameInv'
  BY <1>0, <1>1, Zenon DEF NameInv, Listed
<1>6. AnswerOwed'
  BY <1>0, <1>1 DEF AnswerOwed
<1>. QED BY <1>2, <1>3, <1>4, <1>5, <1>6, Zenon DEF IInv

LEMMA DeviceUnregisterNext ==
    ASSUME IInv, NEW d \in Disk, _device_unregister_cb(d)
    PROVE  IInv'
<1>0. TypeOK /\ StageInv /\ ChannelInv /\ NameInv /\ AnswerOwed
  BY Zenon DEF IInv
<1>1. /\ stage[d] = "destructed" /\ \A t \in Thread : chan[d][t] = "none"
      /\ alive' = [alive EXCEPT ![d] = FALSE] /\ stage' = [stage EXCEPT ![d] = "gone"]
      /\ UNCHANGED <<desc, list, answer, asked, channels, claim, base_ch, refused>>
  BY Zenon DEF _device_unregister_cb, rpcs, bases, history
<1>2. TypeOK'
  BY <1>0, <1>1 DEF TypeOK, channels
<1>3. stage'[d] = "gone" /\ ~ alive'[d]
  BY <1>0, <1>1 DEF TypeOK
<1>4. \A e \in Disk \ {d} : stage'[e] = stage[e] /\ alive'[e] = alive[e]
  BY <1>0, <1>1 DEF TypeOK
<1>5. StageInv'
  <2>1. /\ ~ Opened(d)' /\ ~ Listed(d)' /\ answer'[d] # "unsent"
        /\ d \notin list' /\ desc'[d] # "open" /\ claim'[d.base] # d
    BY <1>0, <1>1, <1>3 DEF StageInv, Opened, Listed
  <2>. QED BY <1>0, <1>1, <1>3, <1>4, <2>1, StageNext, Zenon
<1>6. ChannelInv'
  <2>1. \A e \in Disk : \A t \in Thread :
          chan'[e][t] # "none" => Listed(e)' \/ stage'[e] = "destructed"
    BY <1>0, <1>1, <1>4 DEF ChannelInv, Listed, channels
  <2>2. \A r \in held' : \E e \in Disk, t \in Thread :
          chan'[e][t] # "none" /\ r \in Resources(e, t)
    BY <1>0, <1>1, Zenon DEF ChannelInv, channels
  <2>3. \A r \in base_ch' :
          \/ \E e \in Disk, t \in Thread : chan'[e][t] # "none" /\ r = <<e, t>>
          \/ \E e \in Disk : (stage'[e] = "reading" \/ e \in refused') /\ r = <<e, None>>
    BY <1>0, <1>1, <1>4 DEF ChannelInv, channels
  <2>. QED BY <2>1, <2>2, <2>3, Zenon DEF ChannelInv, Resources
<1>7. NameInv' /\ AnswerOwed'
  <2>1. \A e, f \in Disk : Listed(e)' /\ Listed(f)' /\ e.name = f.name => e = f
    <3>1. \A e \in Disk : Listed(e)' => Listed(e)
      BY <1>3, <1>4 DEF Listed
    <3>. QED BY <1>0, <3>1, Zenon DEF NameInv
  <2>2. \A e \in Disk : answer'[e] = "waiting" <=> stage'[e] = "reading"
    BY <1>0, <1>1, <1>3, <1>4 DEF AnswerOwed
  <2>3. \A e \in Disk : /\ stage'[e] = "unregistering" /\ asked[e] # None <=>
                           stage[e] = "unregistering" /\ asked[e] # None
                        /\ stage'[e] \in {"new", "reading", "registered"} =>
                           stage[e] \in {"new", "reading", "registered"}
    BY <1>1, <1>3, <1>4
  <2>. QED BY <1>0, <1>1, <2>1, <2>2, <2>3, NameNext, Zenon
<1>. QED BY <1>2, <1>5, <1>6, <1>7, Zenon DEF IInv

----------------------------------------------------------------------------
\* Removal of a base bdev.

LEMMA EventNext ==
    ASSUME IInv, NEW d \in Disk, ubi_handle_base_bdev_event(d)
    PROVE  IInv'
<1>0. TypeOK /\ StageInv /\ ChannelInv /\ NameInv /\ AnswerOwed
  BY Zenon DEF IInv
<1>1. PICK D : Unregister(D)
  BY Zenon DEF ubi_handle_base_bdev_event
<1>2. UNCHANGED <<alive, desc, list, answer, asked, channels, claim, base_ch, refused>>
  BY Zenon DEF ubi_handle_base_bdev_event, rpcs
<1>3. /\ TypeOK' /\ StageInv' /\ ChannelInv'
      /\ \A e \in Disk : /\ Listed(e)' <=> Listed(e)
                         /\ stage'[e] = IF e \in D /\ stage[e] = "registered"
                                        THEN "unregistering" ELSE stage[e]
  <2>1. /\ answer' \in [Disk \cup Deletion -> {"unsent", "waiting", "ok", "error"}]
        /\ asked' \in [Disk -> Deletion \cup {None}]
        /\ \A e \in Disk : answer'[e] = answer[e]
    BY <1>0, <1>2, Zenon DEF TypeOK
  <2>. QED BY <1>1, <1>2, <2>1, UnregisterNext, Zenon
<1>4. NameInv' /\ AnswerOwed'
  <2>1. \A e, f \in Disk : Listed(e)' /\ Listed(f)' /\ e.name = f.name => e = f
    BY <1>0, <1>3, Zenon DEF NameInv
  <2>2. \A e \in Disk : answer'[e] = "waiting" <=> stage'[e] = "reading"
    BY <1>0, <1>2, <1>3 DEF AnswerOwed
  <2>3. \A e \in Disk : /\ stage'[e] = "unregistering" /\ asked[e] # None <=>
                           stage[e] = "unregistering" /\ asked[e] # None
                        /\ stage'[e] \in {"new", "reading", "registered"} =>
                           stage[e] \in {"new", "reading", "registered"}
    BY <1>0, <1>3 DEF NameInv
  <2>. QED BY <1>0, <1>2, <2>1, <2>2, <2>3, NameNext, Zenon
<1>. QED BY <1>3, <1>4, Zenon DEF IInv

\* The removal of a base bdev begins or ends: nothing else changes.
LEMMA BaseStep ==
    ASSUME IInv, NEW b \in Base, RemoveBase(b) \/ BaseGone(b)
    PROVE  IInv'
<1>1. UNCHANGED <<disks, rpcs, claim, channels, base_ch, refused>>
  BY Zenon DEF RemoveBase, BaseGone, history
<1>2. TypeOK' /\ StageInv' /\ NameInv' /\ AnswerOwed'
  <2>1. chan' \in [Disk -> [Thread -> {"none", "open", "closing"}]]
    BY <1>1, Zenon DEF IInv, TypeOK, channels
  <2>. QED BY <1>1, <2>1, DisksUnchanged, Zenon
<1>3. ChannelInv'
  <2>1. ChannelInv /\ UNCHANGED <<chan, held, base_ch, stage, refused>>
    BY <1>1, Zenon DEF IInv, channels, disks
  <2>. QED BY <2>1 DEF ChannelInv, Listed, Resources
<1>. QED BY <1>2, <1>3, Zenon DEF IInv

----------------------------------------------------------------------------
\* The theorems.

LEMMA InvInit == Init => IInv
<1>. SUFFICES ASSUME Init PROVE IInv
  BY Zenon
<1>1. TypeOK
  BY DEF Init, TypeOK
<1>2. None \notin Disk /\ \A d \in Disk : d.base \in Base
  BY LifecycleAssumption, Zenon
<1>3. StageInv
  BY <1>2 DEF Init, StageInv, Opened, Listed
<1>4. ChannelInv /\ NameInv
  BY DEF Init, ChannelInv, NameInv, Listed
<1>5. AnswerOwed
  BY DEF Init, AnswerOwed
<1>. QED BY <1>1, <1>3, <1>4, <1>5, Zenon DEF IInv

LEMMA InvNext == IInv /\ [Next]_vars => IInv'
<1>. SUFFICES ASSUME IInv, [Next]_vars PROVE IInv'
  BY Zenon
<1>1. CASE UNCHANGED vars
  <2>1. TypeOK' /\ StageInv' /\ NameInv' /\ AnswerOwed'
    <3>1. /\ UNCHANGED <<disks, rpcs, claim>>
          /\ chan' \in [Disk -> [Thread -> {"none", "open", "closing"}]]
      BY <1>1, Zenon DEF vars, bases, channels, IInv, TypeOK
    <3>. QED BY <3>1, DisksUnchanged, Zenon
  <2>2. ChannelInv'
    <3>1. ChannelInv /\ UNCHANGED <<chan, held, base_ch, stage, refused>>
      BY <1>1, Zenon DEF IInv, vars, channels, disks, bases, history
    <3>. QED BY <3>1 DEF ChannelInv, Listed, Resources
  <2>. QED BY <2>1, <2>2, Zenon DEF IInv
<1>2. ASSUME NEW d \in Disk, OnAppThread(d) PROVE IInv'
  BY <1>2, ReadMetadataNext, DestructNext, CloseBaseNext, DeviceUnregisterNext, EventNext, Zenon
     DEF OnAppThread
<1>. QED BY <1>1, <1>2, CreateNext, ChannelStep, DeleteNext, BaseStep, Zenon DEF Next

\* The inductive invariant always holds.
THEOREM Invariance == Spec => []IInv
BY InvInit, InvNext, PTL DEF Spec

\* A struct ubi_bdev that is freed, by ubi_finish_create or _device_unregister_cb,
\* is in no list, claims nothing and has no channel, and nothing holds on to a base
\* channel for it but a refused metadata read: for any disks, threads and failures.
THEOREM FreedIsForgottenAlways == Spec => []FreedIsForgotten
<1>1. IInv => FreedIsForgotten
  <2>. SUFFICES ASSUME IInv, NEW d \in Disk, ~ alive[d]
                PROVE  /\ d \notin list /\ desc[d] # "open" /\ claim[d.base] # d
                       /\ \A r \in held \cup base_ch : r[1] = d => d \in refused /\ r = <<d, None>>
                       /\ \A t \in Thread : chan[d][t] = "none"
    BY Zenon DEF FreedIsForgotten
  <2>1. ~ Opened(d) /\ ~ Listed(d) /\ stage[d] \notin {"reading", "destructed"}
    BY DEF IInv, StageInv, Opened
  <2>2. d \notin list /\ desc[d] # "open" /\ claim[d.base] # d
    BY <2>1, Zenon DEF IInv, StageInv
  <2>3. \A t \in Thread : chan[d][t] = "none"
    BY <2>1 DEF IInv, ChannelInv
  <2>4. \A r \in held : r[1] # d
    BY <2>3 DEF IInv, ChannelInv, Resources
  <2>5. \A r \in base_ch : r[1] = d => d \in refused /\ r = <<d, None>>
    BY <2>1, <2>3 DEF IInv, ChannelInv
  <2>. QED BY <2>2, <2>3, <2>4, <2>5, Zenon
<1>. QED BY <1>1, Invariance, PTL

\* At most one listed disk is on a base bdev, and has claimed it: claiming in
\* configure_base_bdev keeps every other disk off it until it is given back.
THEOREM OneOwnerPerBaseAlways == Spec => []OneOwnerPerBase
<1>1. IInv => OneOwnerPerBase
  BY DEF IInv, StageInv, Opened, TypeOK, OneOwnerPerBase
<1>. QED BY <1>1, Invariance, PTL

\* Every waiting request is owed one answer, by one disk, and no other request is.
THEOREM AnswerOwedAlways == Spec => []AnswerOwed
<1>1. IInv => AnswerOwed
  BY Zenon DEF IInv
<1>. QED BY <1>1, Invariance, PTL
=============================================================================
