---------------------------- MODULE LivoxProofs -----------------------------
(***************************************************************************)
(* Proofs about LivoxDriver for any lidars, configuration options, number  *)
(* of reports and ring size: it is well typed, data is let through only    *)
(* after the lidar has accepted its whole configuration, no wake-up of the *)
(* polling thread is lost, and the rings without locks are queues.         *)
(***************************************************************************)
EXTENDS LivoxDriver, SequenceTheorems, WellFoundedInduction, TLAPS

\* Options that the report in progress still has to ask a lidar for.
Pending(l) == IF asking.lidar = l THEN Elements(asking.left) ELSE {}
Requested(l) == asking.lidar = l \/ \E o \in AllOptions : asked[l][o] > 0

\* The lock of LidarInfoChangeCallback at work: of a lidar that has been asked for
\* anything, every option is accepted, marked in set_bits, or about to be.
ConfigInv ==
  /\ ConfigTypeOK
  /\ Distinct(known)
  /\ sampling \subseteq Elements(known)
  /\ \/ asking = NoReport
     \/ /\ asking \in [lidar : Lidars, left : Seq(AllOptions)]
        /\ asking.left # <<>>
  /\ \A l \in Lidars : Requested(l) =>
       l \in Elements(known) /\ OptionSet(l) \subseteq accepted[l] \cup setBits[l] \cup Pending(l)
  /\ SamplingMeansConfigured

LEMMA LidarsType == \A l \in Lidars : l \in Nat /\ l # 0
  BY ConfigAssumption DEF ConfigAssumption

LEMMA AppendElements ==
  ASSUME NEW S, NEW s \in Seq(S), NEW x \in S
  PROVE  Elements(Append(s, x)) = Elements(s) \cup {x}
  <1>1. Len(Append(s, x)) = Len(s) + 1 /\ Len(s) \in Nat
    OBVIOUS
  <1>2. \A i \in 1 .. Len(s) : Append(s, x)[i] = s[i]
    OBVIOUS
  <1>3. Append(s, x)[Len(s) + 1] = x
    OBVIOUS
  <1>4. 1 .. Len(s) + 1 = (1 .. Len(s)) \cup {Len(s) + 1}
    BY <1>1
  <1> QED
    BY <1>1, <1>2, <1>3, <1>4 DEF Elements

LEMMA AppendDistinct ==
  ASSUME NEW S, NEW s \in Seq(S), NEW x \in S, Distinct(s), x \notin Elements(s)
  PROVE  Distinct(Append(s, x))
  <1>1. Len(Append(s, x)) = Len(s) + 1 /\ Len(s) \in Nat
    OBVIOUS
  <1>2. \A i \in 1 .. Len(s) : Append(s, x)[i] = s[i] /\ s[i] # x
    BY DEF Elements
  <1>3. Append(s, x)[Len(s) + 1] = x
    OBVIOUS
  <1> SUFFICES ASSUME NEW i \in 1 .. Len(s) + 1, NEW j \in 1 .. Len(s) + 1,
                      Append(s, x)[i] = Append(s, x)[j]
               PROVE  i = j
    BY <1>1 DEF Distinct
  <1>4. CASE i \in 1 .. Len(s) /\ j \in 1 .. Len(s)
    BY <1>2, <1>4 DEF Distinct
  <1>5. CASE i \notin 1 .. Len(s) \/ j \notin 1 .. Len(s)
    <2>1. i = Len(s) + 1 \/ j = Len(s) + 1
      BY <1>1, <1>5
    <2> QED
      BY <1>1, <1>2, <1>3, <2>1
  <1> QED
    BY <1>4, <1>5

\* Taking off the head of a sequence.
LEMMA TailElements ==
  ASSUME NEW S, NEW s \in Seq(S), s # <<>>
  PROVE  /\ Elements(s) = {Head(s)} \cup Elements(Tail(s))
         /\ Head(s) \in S /\ Tail(s) \in Seq(S)
         /\ Len(s) # 1 => Tail(s) # <<>>
         /\ Len(s) = 1 => Elements(s) = {Head(s)}
  <1>1. Len(s) \in Nat \ {0}
    BY EmptySeq
  <1>2. /\ Head(s) = s[1] /\ Len(Tail(s)) = Len(s) - 1 /\ Tail(s) \in Seq(S)
        /\ \A i \in 1 .. Len(s) - 1 : Tail(s)[i] = s[i + 1]
    BY <1>1
  <1>3. \A i \in 1 .. Len(s) : i = 1 \/ i - 1 \in 1 .. Len(s) - 1
    BY <1>1
  <1>4. Elements(s) \subseteq {Head(s)} \cup Elements(Tail(s))
    <2> SUFFICES ASSUME NEW i \in 1 .. Len(s), i # 1
                 PROVE  s[i] \in Elements(Tail(s))
      BY <1>2 DEF Elements
    <2>1. i - 1 \in 1 .. Len(s) - 1 /\ (i - 1) + 1 = i
      BY <1>3
    <2>2. Tail(s)[i - 1] = s[i]
      BY <1>2, <2>1
    <2> QED
      BY <1>2, <2>1, <2>2 DEF Elements
  <1>5. {Head(s)} \cup Elements(Tail(s)) \subseteq Elements(s)
    <2>1. 1 \in 1 .. Len(s) /\ \A i \in 1 .. Len(s) - 1 : i + 1 \in 1 .. Len(s)
      BY <1>1
    <2> QED
      BY <1>2, <2>1 DEF Elements
  <1>6. Head(s) \in S
    BY <1>1, <1>2
  <1>7. Len(s) # 1 => Tail(s) # <<>>
    BY <1>1, <1>2, EmptySeq
  <1>8. Len(s) = 1 => Elements(s) = {Head(s)}
    <2>1. 1 .. 1 = {1}
      OBVIOUS
    <2> QED
      BY <1>2, <2>1 DEF Elements
  <1> QED
    BY <1>2, <1>4, <1>5, <1>6, <1>7, <1>8
-----------------------------------------------------------------------------

LEMMA ConfigStart == ConfigInit => ConfigInv
  <1> SUFFICES ASSUME ConfigInit PROVE ConfigInv
    OBVIOUS
  <1>1. \A l \in Lidars : ~Requested(l)
    BY LidarsType DEF ConfigInit, Requested, NoReport
  <1>2. known \in Seq(Lidars) /\ Len(known) <= MaxSourceLidar /\ Distinct(known)
    BY ConfigAssumption DEF ConfigInit, ConfigAssumption
  <1>3. asked \in [Lidars -> [AllOptions -> Nat]]
    BY DEF ConfigInit
  <1>4. setBits \in [Lidars -> SUBSET AllOptions] /\ accepted \in [Lidars -> SUBSET AllOptions]
    BY DEF ConfigInit
  <1>5. reports \in 0 .. MaxReports
    BY ConfigAssumption DEF ConfigInit, ConfigAssumption
  <1>6. sampling = {} /\ asking = NoReport
    BY DEF ConfigInit
  <1>7. ConfigTypeOK
    BY <1>2, <1>3, <1>4, <1>5, <1>6 DEF ConfigTypeOK
  <1> QED
    BY <1>1, <1>2, <1>6, <1>7 DEF ConfigInv, SamplingMeansConfigured

\* With the lock free nothing is about to be asked.
LEMMA NothingPending ==
  ASSUME MutexFree, NEW l \in Lidars
  PROVE  asking.lidar # l /\ Pending(l) = {}
  BY LidarsType DEF MutexFree, NoReport, Pending

LEMMA InfoChangeKeeps ==
  ASSUME ConfigInv, NEW l \in Lidars, InfoChange(l)
  PROVE  ConfigInv'
  <1>1. UNCHANGED <<sampling, setBits, asked, accepted>> /\ asking = NoReport
    BY DEF InfoChange, MutexFree
  <1>2. known \in Seq(Lidars) /\ Len(known) <= MaxSourceLidar /\ Distinct(known)
    BY DEF ConfigInv, ConfigTypeOK
  <1>3. reports' \in 0 .. MaxReports
    <2>1. reports \in 0 .. MaxReports /\ reports < MaxReports /\ reports' = reports + 1
      BY DEF InfoChange, ConfigInv, ConfigTypeOK
    <2> QED
      BY <2>1, ConfigAssumption DEF ConfigAssumption
  <1>4. CASE Known(l)
    <2>1. known' = known
      BY <1>4 DEF InfoChange
    <2>2. Options[l] \in Seq(AllOptions)
      BY ConfigAssumption DEF ConfigAssumption
    <2>3. CASE Options[l] = <<>>
      <3>1. asking' = asking
        BY <1>1, <1>4, <2>3 DEF InfoChange
      <3> QED
        BY <1>1, <1>3, <2>1, <3>1
        DEF ConfigInv, ConfigTypeOK, Distinct, Requested, Pending, SamplingMeansConfigured
    <2>4. CASE Options[l] # <<>>
      <3>1. asking' = [lidar |-> l, left |-> Options[l]]
        BY <1>4, <2>4 DEF InfoChange
      <3>2. asking' \in [lidar : Lidars, left : Seq(AllOptions)] /\ asking'.left # <<>>
        BY <2>2, <2>4, <3>1
      <3>3. ASSUME NEW k \in Lidars, Requested(k)'
            PROVE  /\ k \in Elements(known')
                   /\ OptionSet(k) \subseteq accepted'[k] \cup setBits'[k] \cup Pending(k)'
        <4>1. CASE k = l
          BY <1>4, <2>1, <3>1, <4>1 DEF Known, Pending, OptionSet, Elements
        <4>2. CASE k # l
          <5>1. Requested(k)
            BY <1>1, <3>1, <3>3, <4>2 DEF Requested
          <5>2. Pending(k) = {}
            BY NothingPending DEF InfoChange
          <5> QED
            BY <1>1, <2>1, <5>1, <5>2 DEF ConfigInv
        <4> QED
          BY <4>1, <4>2
      <3> QED
        BY <1>1, <1>3, <2>1, <3>2, <3>3
        DEF ConfigInv, ConfigTypeOK, Distinct, SamplingMeansConfigured
    <2> QED
      BY <2>3, <2>4
  <1>5. CASE ~Known(l)
    <2>1. asking' = asking
      BY <1>5 DEF InfoChange
    <2>2. /\ known' \in Seq(Lidars) /\ Len(known') <= MaxSourceLidar /\ Distinct(known')
          /\ Elements(known) \subseteq Elements(known')
      <3>1. CASE Len(known) < MaxSourceLidar
        <4>1. known' = Append(known, l)
          BY <1>5, <3>1 DEF InfoChange
        <4>2. Distinct(known') /\ Elements(known') = Elements(known) \cup {l}
          BY <1>2, <1>5, <4>1, AppendDistinct, AppendElements DEF Known
        <4>3. Append(known, l) \in Seq(Lidars) /\ Len(Append(known, l)) = Len(known) + 1
                /\ Len(known) \in Nat
          BY <1>2
        <4> QED
          BY <3>1, <4>1, <4>2, <4>3, ConfigAssumption DEF ConfigAssumption
      <3>2. CASE ~(Len(known) < MaxSourceLidar)
        <4>1. known' = known
          BY <1>5, <3>2 DEF InfoChange
        <4> QED
          BY <1>2, <4>1 DEF Distinct, Elements
      <3> QED
        BY <3>1, <3>2
    <2> QED
      BY <1>1, <1>3, <2>1, <2>2
      DEF ConfigInv, ConfigTypeOK, Requested, Pending, SamplingMeansConfigured
  <1> QED
    BY <1>4, <1>5

LEMMA AskKeeps ==
  ASSUME ConfigInv, Ask
  PROVE  ConfigInv'
  <1> DEFINE a == asking.lidar
             o == Head(asking.left)
  <1>1. /\ UNCHANGED <<known, sampling, reports, accepted>>
        /\ setBits' = [setBits EXCEPT ![a] = @ \cup {o}]
        /\ asked' = [asked EXCEPT ![a][o] = @ + 1]
        /\ asking' = IF Len(asking.left) = 1 THEN NoReport ELSE [asking EXCEPT !.left = Tail(@)]
    BY DEF Ask
  <1>2. asking \in [lidar : Lidars, left : Seq(AllOptions)] /\ asking.left # <<>>
    BY DEF Ask, MutexFree, ConfigInv
  <1>3. a \in Lidars /\ asking.left \in Seq(AllOptions)
    BY <1>2
  <1>4. /\ Elements(asking.left) = {o} \cup Elements(Tail(asking.left))
        /\ o \in AllOptions /\ Tail(asking.left) \in Seq(AllOptions)
        /\ Len(asking.left) # 1 => Tail(asking.left) # <<>>
        /\ Len(asking.left) = 1 => Elements(asking.left) = {o}
    BY <1>2, <1>3, TailElements
  <1>5. ConfigTypeOK'
    <2>1. asked' \in [Lidars -> [AllOptions -> Nat]]
      <3>1. asked \in [Lidars -> [AllOptions -> Nat]]
        BY DEF ConfigInv, ConfigTypeOK
      <3>2. asked[a] \in [AllOptions -> Nat] /\ asked[a][o] + 1 \in Nat
        BY <1>3, <1>4, <3>1
      <3>3. [asked[a] EXCEPT ![o] = asked[a][o] + 1] \in [AllOptions -> Nat]
        BY <3>2
      <3>4. asked' = [asked EXCEPT ![a] = [asked[a] EXCEPT ![o] = asked[a][o] + 1]]
        BY <1>1
      <3> HIDE DEF a, o
      <3> QED
        BY <3>1, <3>3, <3>4
    <2>2. setBits' \in [Lidars -> SUBSET AllOptions]
      BY <1>1, <1>3, <1>4 DEF ConfigInv, ConfigTypeOK
    <2> QED
      BY <1>1, <2>1, <2>2 DEF ConfigInv, ConfigTypeOK
  <1>6. asking' = NoReport \/ /\ asking' \in [lidar : Lidars, left : Seq(AllOptions)]
                              /\ asking'.left # <<>> /\ asking'.lidar = a
                              /\ asking'.left = Tail(asking.left)
    BY <1>1, <1>2, <1>4
  <1>7. ASSUME NEW k \in Lidars, Requested(k)'
        PROVE  /\ k \in Elements(known')
               /\ OptionSet(k) \subseteq accepted'[k] \cup setBits'[k] \cup Pending(k)'
    <2>1. CASE k = a
      <3>1. Requested(k)
        BY <2>1 DEF Requested
      <3>2. Pending(k) = Elements(asking.left)
        BY <2>1 DEF Pending
      <3>3. setBits'[k] = setBits[k] \cup {o}
        BY <1>1, <1>3, <2>1 DEF ConfigInv, ConfigTypeOK
      <3>4. Elements(asking.left) \subseteq {o} \cup Pending(k)'
        <4>1. CASE Len(asking.left) = 1
          BY <1>4, <4>1
        <4>2. CASE Len(asking.left) # 1
          <5>1. asking' = [asking EXCEPT !.left = Tail(@)]
            BY <1>1, <4>2
          <5>2. asking'.lidar = a /\ asking'.left = Tail(asking.left)
            BY <1>2, <5>1
          <5>3. Pending(k)' = Elements(Tail(asking.left))
            BY <2>1, <5>2 DEF Pending, Elements
          <5> QED
            BY <1>4, <5>3
        <4> QED
          BY <4>1, <4>2
      <3> QED
        BY <1>1, <3>1, <3>2, <3>3, <3>4 DEF ConfigInv
    <2>2. CASE k # a
      <3>1. asked'[k] = asked[k] /\ setBits'[k] = setBits[k]
        BY <1>1, <1>3, <2>2 DEF ConfigInv, ConfigTypeOK
      <3>2. asking'.lidar # k
        BY <1>6, <2>2, LidarsType DEF NoReport
      <3>3. Requested(k) /\ Pending(k) = {} /\ Pending(k)' = {}
        BY <1>7, <2>2, <3>1, <3>2 DEF Requested, Pending
      <3> QED
        BY <1>1, <3>1, <3>3 DEF ConfigInv
    <2> QED
      BY <2>1, <2>2
  <1> QED
    BY <1>1, <1>5, <1>6, <1>7 DEF ConfigInv, Distinct, SamplingMeansConfigured

LEMMA AnswerKeeps ==
  ASSUME ConfigInv, NEW l \in Lidars, NEW o \in OptionSet(l),
         Accepted(l, o) \/ NotAccepted(l, o)
  PROVE  ConfigInv'
  <1>1. o \in AllOptions
    BY DEF AllOptions
  <1>2. asked[l][o] \in Nat /\ asked[l][o] > 0 /\ Requested(l)
    BY <1>1 DEF Accepted, NotAccepted, Requested, ConfigInv, ConfigTypeOK
  <1>3. /\ asked' \in [Lidars -> [AllOptions -> Nat]]
        /\ \A k \in Lidars : \A p \in AllOptions : asked'[k][p] <= asked[k][p]
    <2>1. asked \in [Lidars -> [AllOptions -> Nat]]
      BY DEF ConfigInv, ConfigTypeOK
    <2>2. CASE asked' = asked
      BY <2>1, <2>2
    <2>3. CASE asked' = [asked EXCEPT ![l][o] = @ - 1]
      BY <1>1, <1>2, <2>1, <2>3
    <2> QED
      BY <2>2, <2>3 DEF Accepted, NotAccepted
  <1>4. asking' = asking /\ known' = known /\ reports' = reports
    BY DEF Accepted, NotAccepted
  <1>5. \A k \in Lidars : Requested(k)' => Requested(k)
    <2>1. \A k \in Lidars : \A p \in AllOptions : asked'[k][p] > 0 => asked[k][p] > 0
      BY <1>3 DEF ConfigInv, ConfigTypeOK
    <2> QED
      BY <1>4, <2>1 DEF Requested
  <1>6. \A k \in Lidars : Pending(k)' = Pending(k)
    BY <1>4 DEF Pending, Elements
  <1>7. CASE Accepted(l, o)
    <2>1. /\ setBits' = [setBits EXCEPT ![l] = @ \ {o}]
          /\ accepted' = [accepted EXCEPT ![l] = @ \cup {o}]
          /\ sampling' = IF setBits'[l] = {} THEN sampling \cup {l} ELSE sampling
      BY <1>7 DEF Accepted
    <2>2. setBits \in [Lidars -> SUBSET AllOptions] /\ accepted \in [Lidars -> SUBSET AllOptions]
      BY DEF ConfigInv, ConfigTypeOK
    <2>3. \A k \in Lidars : /\ accepted[k] \subseteq accepted'[k]
                            /\ accepted[k] \cup setBits[k] \subseteq accepted'[k] \cup setBits'[k]
      BY <2>1, <2>2
    <2>4. ConfigTypeOK'
      <3>1. setBits' \in [Lidars -> SUBSET AllOptions]
        BY <2>1, <2>2
      <3>2. accepted' \in [Lidars -> SUBSET AllOptions]
        BY <1>1, <2>1, <2>2
      <3>3. sampling' \subseteq Lidars
        BY <2>1 DEF ConfigInv, ConfigTypeOK
      <3> QED
        BY <1>3, <1>4, <3>1, <3>2, <3>3 DEF ConfigInv, ConfigTypeOK
    <2>5. \A k \in Lidars : Requested(k)' =>
            /\ k \in Elements(known')
            /\ OptionSet(k) \subseteq accepted'[k] \cup setBits'[k] \cup Pending(k)'
      BY <1>4, <1>5, <1>6, <2>3 DEF ConfigInv
    <2>6. l \in Elements(known) /\ OptionSet(l) \subseteq accepted[l] \cup setBits[l]
      BY <1>2, <1>7, NothingPending DEF Accepted, ConfigInv
    <2>7. sampling' \subseteq Elements(known')
      BY <1>4, <2>1, <2>6 DEF ConfigInv
    <2>8. SamplingMeansConfigured'
      <3> SUFFICES ASSUME NEW k \in sampling' PROVE OptionSet(k) \subseteq accepted'[k]
        BY DEF SamplingMeansConfigured
      <3>1. CASE k \in sampling
        BY <2>3, <3>1 DEF ConfigInv, ConfigTypeOK, SamplingMeansConfigured
      <3>2. CASE k \notin sampling
        <4>1. k = l /\ setBits'[l] = {}
          BY <2>1, <3>2
        <4> QED
          BY <2>3, <2>6, <4>1
      <3> QED
        BY <3>1, <3>2
    <2> QED
      BY <1>4, <2>4, <2>5, <2>7, <2>8 DEF ConfigInv, Distinct
  <1>8. CASE NotAccepted(l, o)
    <2>1. UNCHANGED <<sampling, setBits, accepted>>
      BY <1>8 DEF NotAccepted
    <2> QED
      BY <1>3, <1>4, <1>5, <1>6, <2>1
      DEF ConfigInv, ConfigTypeOK, Distinct, SamplingMeansConfigured
  <1> QED
    BY <1>7, <1>8

LEMMA ConfigStep == ConfigInv /\ [ConfigNext]_configVars => ConfigInv'
  <1>1. ConfigInv /\ ConfigNext => ConfigInv'
    BY InfoChangeKeeps, AskKeeps, AnswerKeeps DEF ConfigNext
  <1>2. ConfigInv /\ UNCHANGED configVars => ConfigInv'
    BY DEF configVars, ConfigInv, ConfigTypeOK, Distinct, Requested, Pending,
           SamplingMeansConfigured
  <1> QED
    BY <1>1, <1>2

\* The streams and the polling thread leave the configuration alone.
LEMMA UsesConfig == [Next]_vars => [ConfigNext]_configVars
  <1> SUFFICES ASSUME [Next]_vars PROVE [ConfigNext]_configVars
    OBVIOUS
  <1>1. CASE Configure
    BY <1>1 DEF Configure
  <1>2. CASE \E l \in Lidars : RawPacket(l)
    BY <1>2 DEF RawPacket
  <1>3. CASE Silence
    BY <1>3 DEF Silence
  <1>4. CASE ProcessStep
    BY <1>4 DEF ProcessStep, Collects, FrameEnds, Store, Bump, Signal
  <1>5. CASE PollStep \/ Destroy \/ UNCHANGED vars
    BY <1>5 DEF PollStep, Destroy, vars
  <1> QED
    BY <1>1, <1>2, <1>3, <1>4, <1>5 DEF Next

LEMMA ConfigAlways == Spec => []ConfigInv
  <1>1. Init => ConfigInv
    BY ConfigStart DEF Init
  <1>2. ConfigInv /\ [Next]_vars => ConfigInv'
    BY ConfigStep, UsesConfig
  <1> QED
    BY <1>1, <1>2, PTL DEF Spec

\* Any number of lidars, options and reports, and answers in any order: no lidar's
\* data is let through before the lidar has accepted its whole configuration.
THEOREM ConfiguredBeforeData == Spec => []SamplingMeansConfigured
  <1>1. ConfigInv => SamplingMeansConfigured
    BY DEF ConfigInv
  <1> QED
    BY <1>1, ConfigAlways, PTL
-----------------------------------------------------------------------------

TypeInv ==
  /\ LivoxTypeOK
  /\ raw \in Seq(Lidars) /\ frame \subseteq Lidars
  /\ poll \in [at : {"top", "wait", "scan", "pop", "update", "done"}, device : Nat]
  /\ poll.at \in {"pop", "update"} => poll.device \in 1 .. Len(known)
  /\ poll.at = "scan" => poll.device # 0

\* The lidar that is next in a frame.
LEMMA StoringType ==
  ASSUME frame \subseteq Lidars, frame # {}
  PROVE  Storing \in frame
  <1>1. frame \subseteq Nat
    BY LidarsType
  <1>2. \E x \in frame : \A y \in frame : ~(<<y, x>> \in OpToRel(<, Nat))
    BY <1>1, NatLessThanWellFounded, WFMin
  <1>3. PICK x \in frame : \A y \in frame : x <= y
    <2>1. \A x, y \in frame : ~(<<y, x>> \in OpToRel(<, Nat)) => x <= y
      BY <1>1 DEF OpToRel
    <2> QED
      BY <1>2, <2>1
  <1> QED
    BY <1>3 DEF Storing, Min

LEMMA ConfigGrows ==
  ASSUME ConfigInv, ConfigNext
  PROVE  /\ sampling \subseteq sampling'
         /\ Len(known) \in Nat /\ Len(known') \in Nat /\ Len(known) <= Len(known')
         /\ \A i \in 1 .. Len(known) : known'[i] = known[i]
         /\ \A i \in 1 .. Len(known') : i \notin 1 .. Len(known) => known'[i] \notin sampling'
  <1>1. known \in Seq(Lidars) /\ Len(known) \in Nat
    BY DEF ConfigInv, ConfigTypeOK
  <1>2. CASE \E l \in Lidars : InfoChange(l)
    <2>1. PICK l \in Lidars : InfoChange(l)
      BY <1>2
    <2>2. sampling' = sampling
      BY <2>1 DEF InfoChange
    <2>3. CASE known' = known
      BY <1>1, <2>2, <2>3
    <2>4. CASE known' = Append(known, l) /\ ~Known(l)
      <3>1. Len(Append(known, l)) = Len(known) + 1 /\ Append(known, l)[Len(known) + 1] = l
        BY <1>1
      <3>2. \A i \in 1 .. Len(known) : Append(known, l)[i] = known[i]
        BY <1>1
      <3>3. l \notin sampling
        BY <2>4 DEF ConfigInv, Known
      <3> QED
        BY <1>1, <2>2, <2>4, <3>1, <3>2, <3>3
    <2> QED
      BY <2>1, <2>3, <2>4 DEF InfoChange
  <1>3. CASE Ask
    BY <1>1, <1>3 DEF Ask
  <1>4. CASE \E l \in Lidars : \E o \in OptionSet(l) : Accepted(l, o) \/ NotAccepted(l, o)
    BY <1>1, <1>4 DEF Accepted, NotAccepted
  <1> QED
    BY <1>2, <1>3, <1>4 DEF ConfigNext

LEMMA TypeStart == Init => TypeInv
  <1> SUFFICES ASSUME Init PROVE TypeInv
    OBVIOUS
  <1>1. ConfigTypeOK
    BY ConfigStart DEF Init, ConfigInv
  <1>2. 0 \in 0 .. IndexSpace - 1
    BY DriverAssumption DEF DriverAssumption
  <1>3. wr \in [Lidars -> 0 .. IndexSpace - 1] /\ rd \in [Lidars -> 0 .. IndexSpace - 1]
    BY <1>2 DEF Init
  <1>4. raw \in Seq(Lidars) /\ frame = {} /\ points = {} /\ late = {} /\ process = "idle"
    BY DEF Init
  <1>5. count = 0 /\ poll.at = "top"
          /\ poll \in [at : {"top", "wait", "scan", "pop", "update", "done"}, device : Nat]
    BY DEF Init
  <1> QED
    BY <1>1, <1>3, <1>4, <1>5 DEF TypeInv, LivoxTypeOK

LEMMA ConfigureTypes == ConfigInv /\ TypeInv /\ Configure => TypeInv'
  <1> SUFFICES ASSUME ConfigInv, TypeInv, Configure PROVE TypeInv'
    OBVIOUS
  <1>1. UNCHANGED <<raw, sync, points, frame, process, wr, rd, slots, count, poll, hand, exit,
                    silence>> /\ ConfigNext
    BY DEF Configure, streamVars, ringVars, pollVars
  <1>2. ConfigTypeOK'
    BY <1>1, ConfigStep DEF ConfigInv
  <1>3. late' \subseteq sampling'
    BY <1>1, ConfigGrows DEF Configure, TypeInv, LivoxTypeOK
  <1>4. poll'.at \in {"pop", "update"} =>
          poll'.device \in 1 .. Len(known') /\ known'[poll'.device] \in sampling'
    BY <1>1, ConfigGrows DEF TypeInv, LivoxTypeOK
  <1> QED
    BY <1>1, <1>2, <1>3, <1>4 DEF TypeInv, LivoxTypeOK

LEMMA StoreNextType ==
  ASSUME TypeInv, process # "idle", StoreNext
  PROVE  /\ frame' \subseteq Lidars
         /\ process' \in {"idle", "store", "bump", "signal"}
         /\ process' = "idle" <=> frame' = {}
  BY DEF TypeInv, StoreNext

LEMMA ProcessTypes == TypeInv /\ ProcessStep => TypeInv'
  <1> SUFFICES ASSUME TypeInv, ProcessStep PROVE TypeInv'
    OBVIOUS
  <1>1. UNCHANGED <<known, sampling, setBits, asked, asking, reports, accepted, rd, poll>>
    BY DEF ProcessStep, Collects, FrameEnds, Store, Bump, Signal, configVars, ringVars, pollVars
  <1>2. CASE Collects
    <2>1. Head(raw) \in Lidars /\ Tail(raw) \in Seq(Lidars)
      BY <1>2 DEF Collects, TypeInv
    <2> QED
      BY <1>1, <1>2, <2>1 DEF Collects, TypeInv, LivoxTypeOK, ConfigTypeOK, ringVars, pollVars
  <1>3. CASE \E l \in Lidars : FrameEnds(l)
    <2>1. PICK l \in Lidars : FrameEnds(l)
      BY <1>3
    <2>2. Tail(raw) \in Seq(Lidars) /\ raw' = Tail(raw)
      BY <2>1 DEF FrameEnds, TypeInv
    <2>3. frame' \subseteq Lidars /\ frame' # {} /\ points' \subseteq Lidars /\ process' = "store"
      BY <2>1 DEF FrameEnds, TypeInv, LivoxTypeOK
    <2> QED
      BY <1>1, <2>1, <2>2, <2>3
      DEF FrameEnds, TypeInv, LivoxTypeOK, ConfigTypeOK, ringVars, pollVars
  <1>4. CASE Store
    <2>1. /\ frame' \subseteq Lidars /\ process' \in {"idle", "store", "bump", "signal"}
          /\ process' = "idle" <=> frame' = {}
      BY <1>4, StoreNextType DEF Store, TypeInv, LivoxTypeOK
    <2> QED
      BY <1>1, <1>4, <2>1 DEF Store, TypeInv, LivoxTypeOK, ConfigTypeOK, pollVars
  <1>5. CASE Bump
    <2>1. Storing \in Lidars
      BY <1>5, StoringType DEF Bump, TypeInv, LivoxTypeOK
    <2>2. Next1(wr[Storing]) \in 0 .. IndexSpace - 1
      <3>1. wr[Storing] \in 0 .. IndexSpace - 1 /\ IndexSpace \in Nat \ {0}
        BY <2>1, DriverAssumption DEF TypeInv, LivoxTypeOK, DriverAssumption
      <3> QED
        BY <3>1 DEF Next1
    <2>3. wr' \in [Lidars -> 0 .. IndexSpace - 1]
      BY <1>5, <2>1, <2>2 DEF Bump, TypeInv, LivoxTypeOK
    <2> QED
      BY <1>1, <1>5, <2>3 DEF Bump, TypeInv, LivoxTypeOK, ConfigTypeOK, pollVars
  <1>6. CASE Signal
    <2>1. /\ frame' \subseteq Lidars /\ process' \in {"idle", "store", "bump", "signal"}
          /\ process' = "idle" <=> frame' = {}
      BY <1>6, StoreNextType DEF Signal
    <2>2. count' \in {0, 1}
      BY <1>6 DEF Signal, TypeInv, LivoxTypeOK
    <2> QED
      BY <1>1, <1>6, <2>1, <2>2 DEF Signal, TypeInv, LivoxTypeOK, ConfigTypeOK, ringVars
  <1> QED
    BY <1>2, <1>3, <1>4, <1>5, <1>6 DEF ProcessStep

LEMMA PollTypes == ConfigInv /\ TypeInv /\ PollStep => TypeInv'
  <1> SUFFICES ASSUME ConfigInv, TypeInv, PollStep PROVE TypeInv'
    OBVIOUS
  <1> DEFINE Places == [at : {"top", "wait", "scan", "pop", "update", "done"}, device : Nat]
  <1>1. UNCHANGED <<known, sampling, setBits, asked, asking, reports, accepted, raw, sync,
                    points, frame, process, wr>>
    BY DEF PollStep, configVars, streamVars
  <1>2. poll \in Places /\ count \in {0, 1} /\ rd \in [Lidars -> 0 .. IndexSpace - 1]
          /\ late \subseteq sampling
    BY DEF TypeInv, LivoxTypeOK
  <1>3. SUFFICES /\ poll' \in Places /\ count' \in {0, 1}
                 /\ rd' \in [Lidars -> 0 .. IndexSpace - 1] /\ late' \subseteq sampling
                 /\ poll'.at \in {"pop", "update"} =>
                      poll'.device \in 1 .. Len(known) /\ known[poll'.device] \in sampling
                 /\ poll'.at = "scan" => poll'.device # 0
    BY <1>1 DEF TypeInv, LivoxTypeOK, ConfigTypeOK
  <1>4. CASE PollTop
    BY <1>2, <1>4 DEF PollTop, RoundEnds
  <1>5. CASE Wait
    BY <1>2, <1>5 DEF Wait
  <1>6. CASE Scan
    <2>1. Len(known) \in Nat
      BY DEF ConfigInv, ConfigTypeOK
    <2>2. count' = count /\ rd' = rd /\ late' = late
      BY <1>6 DEF Scan
    <2>3. poll.device + 1 \in Nat
      BY <1>2
    <2>4. \/ poll' = [at |-> "top", device |-> 0] \/ poll' = [at |-> "done", device |-> 0]
          \/ poll' = [poll EXCEPT !.device = @ + 1] /\ poll.at = "scan"
          \/ /\ poll' = [poll EXCEPT !.at = "pop"]
             /\ poll.device <= Len(known) /\ known[poll.device] \in sampling
             /\ poll.device # 0
      <3>1. poll.at = "scan" /\ poll.device # 0
        BY <1>6 DEF Scan, TypeInv
      <3>2. CASE RoundEnds
        BY <3>2 DEF RoundEnds
      <3>3. CASE poll' = [poll EXCEPT !.device = @ + 1]
        BY <3>1, <3>3
      <3>4. CASE ~RoundEnds /\ poll' # [poll EXCEPT !.device = @ + 1]
        BY <1>6, <3>1, <3>4 DEF Scan
      <3> QED
        BY <3>2, <3>3, <3>4
    <2>5. poll.device + 1 # 0
      BY <1>2
    <2>6. CASE poll' = [poll EXCEPT !.device = @ + 1] /\ poll.at = "scan"
      BY <1>2, <2>2, <2>3, <2>5, <2>6
    <2>7. CASE poll' = [poll EXCEPT !.at = "pop"]
      BY <1>2, <2>1, <2>2, <2>4, <2>7
    <2> QED
      BY <1>2, <2>2, <2>4, <2>6, <2>7
  <1>7. CASE PrePop
    BY <1>2, <1>7 DEF PrePop, TypeInv, LivoxTypeOK
  <1>8. CASE PopUpdate
    <2> DEFINE l == known[poll.device]
    <2>1. l \in sampling /\ l \in Lidars /\ poll.device \in 1 .. Len(known)
      BY <1>8 DEF PopUpdate, TypeInv, LivoxTypeOK, ConfigInv, ConfigTypeOK
    <2>2. Next1(rd[l]) \in 0 .. IndexSpace - 1
      <3>1. rd[l] \in 0 .. IndexSpace - 1 /\ IndexSpace \in Nat \ {0}
        BY <1>2, <2>1, DriverAssumption DEF DriverAssumption
      <3> QED
        BY <3>1 DEF Next1
    <2>3. rd' = [rd EXCEPT ![l] = Next1(@)] /\ poll' = [poll EXCEPT !.at = "pop"]
            /\ count' = count /\ late' \subseteq late
      BY <1>8 DEF PopUpdate
    <2> QED
      BY <1>2, <2>1, <2>2, <2>3
  <1> QED
    BY <1>4, <1>5, <1>6, <1>7, <1>8 DEF PollStep

LEMMA TypeStep == ConfigInv /\ TypeInv /\ [Next]_vars => TypeInv'
  <1> SUFFICES ASSUME ConfigInv, TypeInv, [Next]_vars PROVE TypeInv'
    OBVIOUS
  <1>1. CASE \E l \in Lidars : RawPacket(l)
    <2>1. PICK l \in Lidars : RawPacket(l)
      BY <1>1
    <2>2. raw' \in Seq(Lidars)
      BY <2>1 DEF RawPacket, TypeInv
    <2> QED
      BY <2>1, <2>2 DEF RawPacket, TypeInv, LivoxTypeOK, ConfigTypeOK, configVars, ringVars, pollVars
  <1>2. CASE Silence \/ Destroy
    BY <1>2 DEF Silence, Destroy, TypeInv, LivoxTypeOK, ConfigTypeOK, configVars, streamVars,
                ringVars, pollVars
  <1>3. CASE UNCHANGED vars
    BY <1>3 DEF vars, TypeInv, LivoxTypeOK, ConfigTypeOK, configVars, streamVars, ringVars, pollVars
  <1> QED
    BY <1>1, <1>2, <1>3, ConfigureTypes, ProcessTypes, PollTypes DEF Next

LEMMA TypesAlways == Spec => []TypeInv
  <1>1. Init => ConfigInv
    BY ConfigStart DEF Init
  <1> QED
    BY <1>1, ConfigAlways, TypeStart, TypeStep, PTL DEF Spec

\* Any number of lidars: the driver is well typed, its semaphore counts to one at
\* most, and the polling thread touches only rings of lidars that are sampling.
THEOREM TypeCorrect == Spec => []LivoxTypeOK
  <1>1. TypeInv => LivoxTypeOK
    BY DEF TypeInv
  <1> QED
    BY <1>1, TypesAlways, PTL
-----------------------------------------------------------------------------

\* A ring that the polling thread need not look at.
Covered(l) == IsEmpty(l) \/ l \in late

\* No wake-up is on its way and none has been stored.
Quiet == count = 0 /\ process # "signal" /\ exit = "no"

\* When no wake-up is due, what the polling thread has passed in this round is
\* empty: a frame that went in behind it is still to be signalled, or has been.
WakeInv ==
  Quiet =>
    /\ poll.at \in {"top", "wait"} => \A l \in sampling : Covered(l)
    /\ poll.at \in {"scan", "pop", "update"} =>
         \A j \in 1 .. Len(known) :
           j < poll.device /\ known[j] \in sampling => Covered(known[j])

LEMMA WakeStart == Init => WakeInv
  BY DEF Init, ConfigInit, WakeInv

LEMMA ConfigureWakes == ConfigInv /\ TypeInv /\ WakeInv /\ Configure => WakeInv'
  <1> SUFFICES ASSUME ConfigInv, TypeInv, WakeInv, Configure, Quiet' PROVE WakeInv'
    BY DEF WakeInv
  <1>1. /\ UNCHANGED <<wr, rd, count, process, exit, poll>> /\ ConfigNext
        /\ late' = late \cup {l \in sampling' \ sampling : ~IsEmpty(l)}
    BY DEF Configure, streamVars, ringVars, pollVars
  <1>2. Quiet /\ (\A l : IsEmpty(l)' <=> IsEmpty(l))
    BY <1>1 DEF Quiet, IsEmpty
  <1>3. \A l \in sampling' : (l \in sampling => Covered(l)) => Covered(l)'
    BY <1>1, <1>2 DEF Covered
  <1>4. CASE poll.at \in {"top", "wait"}
    BY <1>1, <1>2, <1>3, <1>4 DEF WakeInv
  <1>5. CASE poll.at \in {"scan", "pop", "update"}
    <2> SUFFICES ASSUME NEW j \in 1 .. Len(known'), j < poll.device, known'[j] \in sampling'
                 PROVE  Covered(known[j])'
      BY <1>1, <1>5 DEF WakeInv
    <2>1. j \in 1 .. Len(known) /\ known'[j] = known[j]
      BY <1>1, ConfigGrows
    <2> QED
      BY <1>2, <1>3, <1>5, <2>1 DEF WakeInv
  <1> QED
    BY <1>1, <1>4, <1>5 DEF WakeInv

LEMMA ProcessWakes == TypeInv /\ WakeInv /\ ProcessStep => WakeInv'
  <1> SUFFICES ASSUME TypeInv, WakeInv, ProcessStep, Quiet' PROVE WakeInv'
    BY DEF WakeInv
  <1>1. ~Bump
    BY DEF Bump, Quiet
  <1>2. ~Signal
    <2>1. Signal => count' # 0
      BY DEF Signal, TypeInv, LivoxTypeOK
    <2> QED
      BY <2>1 DEF Quiet
  <1>3. /\ UNCHANGED <<known, sampling, wr, rd, poll, late, count, exit>>
        /\ process # "signal"
    BY <1>1, <1>2 DEF ProcessStep, Collects, FrameEnds, Store, configVars, ringVars, pollVars
  <1>4. Quiet /\ \A l : Covered(l)' <=> Covered(l)
    BY <1>3 DEF Quiet, Covered, IsEmpty
  <1> QED
    BY <1>3, <1>4 DEF WakeInv

LEMMA PollWakes == ConfigInv /\ TypeInv /\ WakeInv /\ PollStep => WakeInv'
  <1> SUFFICES ASSUME ConfigInv, TypeInv, WakeInv, PollStep, Quiet' PROVE WakeInv'
    BY DEF WakeInv
  <1>1. UNCHANGED <<known, sampling, wr, process, exit>> /\ exit = "no" /\ process # "signal"
    BY DEF PollStep, configVars, streamVars, Quiet
  <1>2. /\ poll \in [at : {"top", "wait", "scan", "pop", "update", "done"}, device : Nat]
        /\ Len(known) \in Nat /\ Len(known) <= MaxSourceLidar /\ MaxSourceLidar \in Nat
    BY ConfigAssumption DEF TypeInv, ConfigInv, ConfigTypeOK, ConfigAssumption
  <1>3. ASSUME UNCHANGED <<rd, late, count>>
        PROVE  Quiet /\ \A l : Covered(l)' <=> Covered(l)
    BY <1>1, <1>3 DEF Quiet, Covered, IsEmpty
  <1>4. CASE PollTop
    <2>1. UNCHANGED <<rd, late, count>> /\ poll.at = "top" /\ poll' = [poll EXCEPT !.at = "wait"]
      BY <1>1, <1>4 DEF PollTop
    <2>2. poll'.at = "wait"
      BY <1>2, <2>1
    <2> QED
      BY <1>1, <1>3, <2>1, <2>2 DEF WakeInv
  <1>5. CASE Wait
    <2>1. poll'.at = "scan" /\ poll'.device = 1
      BY <1>5 DEF Wait
    <2> QED
      BY <1>1, <1>2, <2>1 DEF WakeInv
  <1>6. CASE Scan
    <2>1. UNCHANGED <<rd, late, count>> /\ poll.at = "scan"
      BY <1>6 DEF Scan
    <2>2. \A j \in 1 .. Len(known) :
            j < poll.device /\ known[j] \in sampling => Covered(known[j])
      BY <1>3, <2>1 DEF WakeInv
    <2>3. CASE poll.device > MaxSourceLidar /\ RoundEnds
      <3>1. poll'.at = "top"
        BY <1>1, <2>3 DEF RoundEnds
      <3>2. \A l \in sampling : Covered(l)
        <4>1. \A j \in 1 .. Len(known) : j < poll.device
          BY <1>2, <2>3
        <4> QED
          BY <2>2, <4>1 DEF ConfigInv, Elements
      <3> QED
        BY <1>1, <1>3, <2>1, <3>1, <3>2 DEF WakeInv
    <2>4. CASE poll' = [poll EXCEPT !.device = @ + 1]
               /\ ~(poll.device <= Len(known) /\ known[poll.device] \in sampling
                      /\ exit = "no" /\ ~IsEmpty(known[poll.device]))
      <3>1. poll'.at = "scan" /\ poll'.device = poll.device + 1
        BY <1>2, <2>1, <2>4
      <3>2. \A j \in 1 .. Len(known) : j < poll.device + 1 => j < poll.device \/ j = poll.device
        BY <1>2
      <3>3. poll.device \in 1 .. Len(known) /\ known[poll.device] \in sampling
              => Covered(known[poll.device])
        BY <1>1, <1>2, <2>4 DEF Covered
      <3>4. \A j \in 1 .. Len(known) :
              j < poll'.device /\ known[j] \in sampling => Covered(known[j])
        BY <2>2, <3>1, <3>2, <3>3
      <3> QED
        BY <1>1, <1>3, <2>1, <3>1, <3>4 DEF WakeInv
    <2>5. CASE poll' = [poll EXCEPT !.at = "pop"]
      <3>1. poll'.at = "pop" /\ poll'.device = poll.device
        BY <1>2, <2>5
      <3> QED
        BY <1>1, <1>3, <2>1, <2>2, <3>1 DEF WakeInv
    <2> QED
      BY <1>6, <2>3, <2>4, <2>5 DEF Scan
  <1>7. CASE PrePop
    <2>1. UNCHANGED <<rd, late, count>> /\ poll.at = "pop" /\ poll'.device = poll.device
            /\ poll'.at \in {"scan", "update"}
      BY <1>2, <1>7 DEF PrePop
    <2> QED
      BY <1>1, <1>3, <2>1 DEF WakeInv
  <1>8. CASE PopUpdate
    <2> DEFINE l == known[poll.device]
    <2>1. /\ poll.at = "update" /\ poll'.at = "pop" /\ poll'.device = poll.device
          /\ count' = count /\ rd' = [rd EXCEPT ![l] = Next1(@)] /\ late \ {l} \subseteq late'
      BY <1>2, <1>8 DEF PopUpdate
    <2>2. poll.device \in 1 .. Len(known) /\ Quiet /\ rd \in [Lidars -> 0 .. IndexSpace - 1]
      BY <1>1, <2>1 DEF TypeInv, LivoxTypeOK, Quiet
    <2> SUFFICES ASSUME NEW j \in 1 .. Len(known), j < poll.device, known[j] \in sampling
                 PROVE  Covered(known[j])'
      BY <1>1, <2>1 DEF WakeInv
    <2>3. known[j] # l
      BY <1>2, <2>2 DEF ConfigInv, Distinct
    <2>4. Covered(known[j]) /\ known[j] \in Lidars
      BY <2>1, <2>2 DEF WakeInv, ConfigInv, ConfigTypeOK
    <2>5. rd'[known[j]] = rd[known[j]]
      BY <2>1, <2>2, <2>3, <2>4
    <2> QED
      BY <1>1, <2>1, <2>3, <2>4, <2>5 DEF Covered, IsEmpty
  <1> QED
    BY <1>4, <1>5, <1>6, <1>7, <1>8 DEF PollStep

LEMMA WakeStep == ConfigInv /\ TypeInv /\ WakeInv /\ [Next]_vars => WakeInv'
  <1> SUFFICES ASSUME ConfigInv, TypeInv, WakeInv, [Next]_vars PROVE WakeInv'
    OBVIOUS
  <1>1. CASE Destroy
    BY <1>1 DEF Destroy, RequestExit, ExitSignal, WakeInv, Quiet
  <1>2. CASE (\E l \in Lidars : RawPacket(l)) \/ Silence \/ UNCHANGED vars
    <2>1. UNCHANGED <<known, sampling, wr, rd, poll, late, count, exit, process>>
      BY <1>2 DEF RawPacket, Silence, vars, configVars, streamVars, ringVars, pollVars
    <2> QED
      BY <2>1 DEF WakeInv, Quiet, Covered, IsEmpty
  <1> QED
    BY <1>1, <1>2, ConfigureWakes, ProcessWakes, PollWakes DEF Next

\* Any number of lidars and device slots, rings of any size: the polling thread
\* never sleeps over a frame, although it and the processing thread share only a
\* semaphore that counts to one.
THEOREM WakeupsArrive == Spec => []NoLostWakeup
  <1>1. WakeInv => NoLostWakeup
    BY DEF WakeInv, NoLostWakeup, Quiet, Covered
  <1>2. Init => ConfigInv
    BY ConfigStart DEF Init
  <1> QED
    BY <1>1, <1>2, ConfigAlways, TypesAlways, WakeStart, WakeStep, PTL DEF Spec
-----------------------------------------------------------------------------
(* The rings.                                                              *)

\* The number of the k-th packet that waits in a ring.
Waiting(l, k) == (rd[l] + k) % IndexSpace

\* Between the two steps of a push the packet is in its slot and not yet counted;
\* between the two steps of a pop it has been copied and is still counted.
Holds(l) ==
  /\ Used(l) <= Size
  /\ \A k \in 0 .. Size - 1 :
       k < Used(l) => slots[l][Waiting(l, k) % Size] = Waiting(l, k)
Pushed(l) == Used(l) < Size /\ slots[l][wr[l] % Size] = wr[l]
Copied(l) == ~IsEmpty(l) /\ hand = rd[l]
RingInv ==
  /\ slots \in [Lidars -> [0 .. Size - 1 -> Int]]
  /\ \A l \in Lidars : Holds(l)
  /\ process = "bump" => Pushed(Storing)
  /\ poll.at = "update" => Copied(known[poll.device])

\* What RingAssumption says in sums: indices fit more than one ring.
LEMMA SizeFits ==
  /\ Size \in Nat \ {0} /\ IndexSpace \in Nat \ {0} /\ Size < IndexSpace
  /\ \E k \in Nat : IndexSpace = k * Size
  <1>1. PICK k \in 2 .. IndexSpace : IndexSpace = k * Size
    BY RingAssumption DEF RingAssumption
  <1>2. Size \in Nat \ {0} /\ IndexSpace \in Nat \ {0}
    BY RingAssumption, DriverAssumption DEF RingAssumption, DriverAssumption
  <1>3. Size < k * Size
    <2> DEFINE S == Size
    <2>1. S \in Nat \ {0} /\ k \in Nat /\ k >= 2
      BY <1>1, <1>2
    <2> HIDE DEF S
    <2>2. S < k * S
      BY <2>1
    <2> QED
      BY <2>2 DEF S
  <1> QED
    BY <1>1, <1>2, <1>3

\* Reduction of an index that is less than one turn out of range.
LEMMA OneTurn ==
  ASSUME NEW n \in Nat \ {0}, NEW x \in Int, -n <= x, x < 2 * n
  PROVE  x % n = IF x < 0 THEN x + n ELSE IF x < n THEN x ELSE x - n
  <1>1. CASE x < 0
    <2>1. x = n * (-1) + (x + n) /\ x + n \in 0 .. n - 1
      BY <1>1
    <2> QED
      BY <1>1, <2>1
  <1>2. CASE 0 <= x /\ x < n
    BY <1>2
  <1>3. CASE n <= x
    <2>1. x = n * 1 + (x - n) /\ x - n \in 0 .. n - 1
      BY <1>3
    <2> QED
      BY <1>3, <2>1
  <1> QED
    BY <1>1, <1>2, <1>3

\* Two indices less than a ring apart have different slots, also across the wrap.
LEMMA SlotsApart ==
  ASSUME NEW m \in 0 .. IndexSpace - 1, NEW n \in 0 .. IndexSpace - 1,
         NEW d \in 1 .. Size - 1, m = n + d \/ m + IndexSpace = n + d
  PROVE  m % Size # n % Size
  <1> DEFINE S == Size
             N == IndexSpace
  <1>1. S \in Nat \ {0} /\ N \in Nat \ {0}
    BY SizeFits
  <1>2. PICK k \in Nat : N = k * S
    BY SizeFits
  <1>3. PICK c \in {0, k} : m + c * S = n + d
    <2>1. 0 * S = 0
      BY <1>1
    <2> QED
      BY <1>1, <1>2, <2>1
  <1>4. m \in Int /\ n \in Int /\ d \in Int /\ c \in Int /\ 1 <= d /\ d < S
    BY <1>1, <1>2
  <1> HIDE DEF S, N
  <1>5. SUFFICES ASSUME m % S = n % S PROVE FALSE
    BY DEF S
  <1>6. m = S * (m \div S) + (m % S) /\ m \div S \in Int
    BY <1>1, <1>4
  <1>7. n = S * (n \div S) + (n % S) /\ n \div S \in Int
    BY <1>1, <1>4
  <1>8. PICK e \in Int : S * e = d
    <2>1. (m \div S) + c - (n \div S) \in Int
      BY <1>4, <1>6, <1>7
    <2>2. S * ((m \div S) + c - (n \div S)) = S * (m \div S) + c * S - S * (n \div S)
      BY <1>1, <1>4, <1>6, <1>7
    <2>3. c * S \in Int /\ S * (m \div S) \in Int /\ S * (n \div S) \in Int
            /\ m % S \in Int
      BY <1>1, <1>4, <1>6, <1>7
    <2>4. S * (m \div S) + c * S - S * (n \div S) = d
      BY <1>3, <1>4, <1>5, <1>6, <1>7, <2>3
    <2> QED
      BY <2>1, <2>2, <2>4
  <1>9. CASE e <= 0
    <2>1. S * e <= 0
      BY <1>1, <1>9
    <2> QED
      BY <1>4, <1>8, <2>1
  <1>10. CASE e >= 1
    <2>1. S * e >= S
      BY <1>1, <1>10
    <2> QED
      BY <1>1, <1>4, <1>8, <2>1
  <1> QED
    BY <1>9, <1>10

\* The number of packets in a ring without reductions.
LEMMA CountIs ==
  ASSUME NEW w \in 0 .. IndexSpace - 1, NEW r \in 0 .. IndexSpace - 1
  PROVE  /\ (w - r) % IndexSpace = IF w < r THEN w - r + IndexSpace ELSE w - r
         /\ (w - r) % IndexSpace \in 0 .. IndexSpace - 1
         /\ w = r <=> (w - r) % IndexSpace = 0
  <1>1. IndexSpace \in Nat \ {0}
    BY SizeFits
  <1> DEFINE x == w - r
  <1>2. x \in Int /\ -IndexSpace <= x /\ x < 2 * IndexSpace /\ x < IndexSpace
    BY <1>1
  <1>3. x % IndexSpace = IF x < 0 THEN x + IndexSpace ELSE x
    <2> HIDE DEF x
    <2> QED
      BY <1>1, <1>2, OneTurn
  <1> QED
    BY <1>1, <1>3

LEMMA CountsAre ==
  ASSUME LivoxTypeOK, NEW l \in Lidars
  PROVE  /\ wr[l] \in 0 .. IndexSpace - 1 /\ rd[l] \in 0 .. IndexSpace - 1
         /\ Used(l) = IF wr[l] < rd[l] THEN wr[l] - rd[l] + IndexSpace ELSE wr[l] - rd[l]
         /\ Used(l) \in 0 .. IndexSpace - 1
         /\ IsEmpty(l) <=> Used(l) = 0
  <1>1. wr[l] \in 0 .. IndexSpace - 1 /\ rd[l] \in 0 .. IndexSpace - 1
    BY DEF LivoxTypeOK
  <1> QED
    BY <1>1, CountIs DEF Used, IsEmpty

LEMMA IndicesAre ==
  ASSUME NEW i \in 0 .. IndexSpace - 1, NEW k \in 0 .. Size
  PROVE  /\ (i + k) % IndexSpace = IF i + k < IndexSpace THEN i + k ELSE i + k - IndexSpace
         /\ Next1(i) = IF i + 1 < IndexSpace THEN i + 1 ELSE 0
         /\ i % Size \in 0 .. Size - 1
  <1>1. Size \in Nat \ {0} /\ IndexSpace \in Nat \ {0} /\ Size < IndexSpace
    BY SizeFits
  <1> DEFINE x == i + k
             y == i + 1
  <1>2. /\ x \in Int /\ 0 <= x /\ -IndexSpace <= x /\ x < 2 * IndexSpace
        /\ y \in Int /\ 0 <= y /\ -IndexSpace <= y /\ y < 2 * IndexSpace
    BY <1>1
  <1>3. x % IndexSpace = IF x < IndexSpace THEN x ELSE x - IndexSpace
    <2> HIDE DEF x
    <2>1. x % IndexSpace = IF x < 0 THEN x + IndexSpace
                           ELSE IF x < IndexSpace THEN x ELSE x - IndexSpace
      BY <1>1, <1>2, OneTurn
    <2> QED
      BY <1>2, <2>1
  <1>4. y % IndexSpace = IF y < IndexSpace THEN y ELSE y - IndexSpace
    <2> HIDE DEF y
    <2>1. y % IndexSpace = IF y < 0 THEN y + IndexSpace
                           ELSE IF y < IndexSpace THEN y ELSE y - IndexSpace
      BY <1>1, <1>2, OneTurn
    <2> QED
      BY <1>2, <2>1
  <1>5. i % Size \in 0 .. Size - 1
    <2> DEFINE S == Size
    <2>1. S \in Nat \ {0} /\ i \in Int
      BY <1>1
    <2> HIDE DEF S
    <2>2. i % S \in 0 .. S - 1
      BY <2>1
    <2> QED
      BY <2>2 DEF S
  <1> QED
    BY <1>1, <1>3, <1>4, <1>5 DEF Next1

\* How far the write index is ahead of the k-th packet that waits.
LEMMA Ahead ==
  ASSUME NEW n \in Nat, NEW w \in 0 .. n - 1, NEW r \in 0 .. n - 1, NEW u \in Nat,
         u = IF w < r THEN w - r + n ELSE w - r,
         NEW k \in Nat, k <= u, NEW v,
         v = IF r + k < n THEN r + k ELSE r + k - n
  PROVE  /\ v \in 0 .. n - 1
         /\ w = v + (u - k) \/ w + n = v + (u - k)
         /\ k = u => v = w
  <1>1. CASE w < r
    BY <1>1
  <1>2. CASE ~(w < r)
    BY <1>2
  <1> QED
    BY <1>1, <1>2

LEMMA RingStart == Init => RingInv
  <1> SUFFICES ASSUME Init PROVE RingInv
    OBVIOUS
  <1>1. LivoxTypeOK
    BY TypeStart DEF TypeInv
  <1>2. slots \in [Lidars -> [0 .. Size - 1 -> Int]]
    BY DEF Init
  <1>3. \A l \in Lidars : Used(l) = 0
    BY <1>1, CountsAre DEF Init, IsEmpty
  <1>4. \A l \in Lidars : Holds(l)
    BY <1>3, SizeFits DEF Holds
  <1>5. process # "bump" /\ poll.at # "update"
    BY DEF Init
  <1> QED
    BY <1>2, <1>4, <1>5 DEF RingInv

\* Steps that touch no ring.
LEMMA RingKept ==
  ASSUME RingInv, UNCHANGED <<wr, rd, slots, hand>>,
         process' = "bump" => process = "bump" /\ frame' = frame,
         poll'.at = "update" =>
           poll.at = "update" /\ known'[poll'.device] = known[poll.device]
  PROVE  RingInv'
  <1>2. process' = "bump" => Storing' = Storing
    BY DEF Storing
  <1>3. process' = "bump" => Pushed(Storing)'
    BY <1>2 DEF RingInv, Pushed, Used
  <1>4. poll'.at = "update" => Copied(known[poll.device])'
    BY DEF RingInv, Copied, IsEmpty
  <1>5. ASSUME NEW l \in Lidars PROVE Holds(l)'
    <2>1. Holds(l)
      BY DEF RingInv
    <2> QED
      BY <2>1 DEF Holds, Used, Waiting
  <1> QED
    BY <1>3, <1>4, <1>5 DEF RingInv

LEMMA StoreRings == TypeInv /\ RingInv /\ Store => RingInv'
  <1> SUFFICES ASSUME TypeInv, RingInv, Store PROVE RingInv'
    OBVIOUS
  <1>1. UNCHANGED <<wr, rd, hand, poll, known>> /\ process = "store"
    BY DEF Store, pollVars, configVars
  <1> PICK l \in Lidars : l = Storing
    BY <1>1, StoringType DEF TypeInv, LivoxTypeOK
  <1>2. CASE ~Known(l) \/ IsFull(l)
    <2>1. slots' = slots /\ process' # "bump"
      BY <1>1, <1>2 DEF Store, StoreNext
    <2> QED
      BY <1>1, <2>1, RingKept
  <1>3. CASE Known(l) /\ ~IsFull(l)
    <2>1. /\ ~IsFull(l) /\ slots' = [slots EXCEPT ![l][wr[l] % Size] = wr[l]]
          /\ frame' = frame
      BY <1>3 DEF Store
    <2>2. LivoxTypeOK
      BY DEF TypeInv
    <2>3. /\ wr[l] \in 0 .. IndexSpace - 1 /\ rd[l] \in 0 .. IndexSpace - 1
          /\ Used(l) \in 0 .. IndexSpace - 1
          /\ Used(l) = IF wr[l] < rd[l] THEN wr[l] - rd[l] + IndexSpace ELSE wr[l] - rd[l]
      BY <2>2, CountsAre
    <2>4. Size \in Nat \ {0} /\ IndexSpace \in Nat \ {0} /\ Size < IndexSpace
      BY SizeFits
    <2>5. Used(l) < Size
      BY <2>1, <2>3, <2>4 DEF IsFull
    <2>6. wr[l] % Size \in 0 .. Size - 1
      <3>1. 0 \in 0 .. Size
        BY <2>4
      <3> QED
        BY <2>3, <3>1, IndicesAre
    <2>7. slots \in [Lidars -> [0 .. Size - 1 -> Int]]
      BY DEF RingInv
    <2>8. /\ slots' \in [Lidars -> [0 .. Size - 1 -> Int]]
          /\ slots'[l][wr[l] % Size] = wr[l]
          /\ \A i \in 0 .. Size - 1 : i # wr[l] % Size => slots'[l][i] = slots[l][i]
          /\ \A j \in Lidars : j # l => slots'[j] = slots[j]
      <3> DEFINE at == wr[l] % Size
                 row == [slots[l] EXCEPT ![at] = wr[l]]
      <3>1. slots' = [slots EXCEPT ![l] = row]
        BY <2>1
      <3>2. wr[l] \in Int /\ slots[l] \in [0 .. Size - 1 -> Int] /\ at \in 0 .. Size - 1
        BY <2>2, <2>3, <2>6, <2>7
      <3> HIDE DEF at
      <3>3. /\ row \in [0 .. Size - 1 -> Int] /\ row[at] = wr[l]
            /\ \A i \in 0 .. Size - 1 : i # at => row[i] = slots[l][i]
        BY <3>2
      <3> HIDE DEF row
      <3>4. /\ slots' \in [Lidars -> [0 .. Size - 1 -> Int]] /\ slots'[l] = row
            /\ \A j \in Lidars : j # l => slots'[j] = slots[j]
        BY <2>2, <2>7, <3>1, <3>3
      <3> QED
        BY <3>3, <3>4 DEF at
    <2>9. ASSUME NEW k \in 0 .. Size - 1, k < Used(l)
          PROVE  slots'[l][Waiting(l, k) % Size] = Waiting(l, k)
      <3>1. Waiting(l, k) = IF rd[l] + k < IndexSpace THEN rd[l] + k
                                                      ELSE rd[l] + k - IndexSpace
        BY <2>3, <2>4, IndicesAre DEF Waiting
      <3>2. k \in Nat /\ Used(l) \in Nat /\ k <= Used(l)
        BY <2>3, <2>4, <2>9
      <3> DEFINE d == Used(l) - k
      <3>3. d \in 1 .. Size - 1
        BY <2>3, <2>4, <2>5, <2>9
      <3>4. /\ Waiting(l, k) \in 0 .. IndexSpace - 1
            /\ wr[l] = Waiting(l, k) + d \/ wr[l] + IndexSpace = Waiting(l, k) + d
        BY <2>3, <2>4, <3>1, <3>2, Ahead
      <3>5. wr[l] % Size # Waiting(l, k) % Size
        BY <2>3, <3>3, <3>4, SlotsApart
      <3>6. Waiting(l, k) % Size \in 0 .. Size - 1
        BY <3>4, <2>4, IndicesAre
      <3> QED
        BY <2>8, <2>9, <3>5, <3>6, <2>2 DEF RingInv, Holds
    <2>10. \A j \in Lidars : Used(j)' = Used(j) /\ \A k : Waiting(j, k)' = Waiting(j, k)
      BY <1>1 DEF Used, Waiting
    <2>11. Holds(l)'
      BY <2>2, <2>9, <2>10 DEF RingInv, Holds
    <2>12. \A j \in Lidars : j # l => Holds(j)'
      BY <2>8, <2>10 DEF RingInv, Holds
    <2>13. Storing' = l /\ Pushed(l)'
      BY <1>1, <2>1, <2>2, <2>5, <2>8, <2>10 DEF Pushed, Storing
    <2>14. poll'.at = "update" => Copied(known[poll.device])'
      BY <1>1 DEF RingInv, Copied, IsEmpty
    <2> QED
      BY <1>1, <2>8, <2>11, <2>12, <2>13, <2>14 DEF RingInv
  <1> QED
    BY <1>2, <1>3

LEMMA BumpRings == TypeInv /\ TypeInv' /\ RingInv /\ Bump => RingInv'
  <1> SUFFICES ASSUME TypeInv, TypeInv', RingInv, Bump PROVE RingInv'
    OBVIOUS
  <1>1. UNCHANGED <<rd, slots, hand, poll, known>> /\ process = "bump" /\ process' = "signal"
    BY DEF Bump, pollVars, configVars
  <1> PICK l \in Lidars : l = Storing
    BY <1>1, StoringType DEF TypeInv, LivoxTypeOK
  <1>2. LivoxTypeOK /\ LivoxTypeOK' /\ Holds(l) /\ Pushed(l)
    BY <1>1 DEF TypeInv, RingInv
  <1>3. wr' = [wr EXCEPT ![l] = Next1(wr[l])]
    BY DEF Bump
  <1>4. wr'[l] = Next1(wr[l]) /\ \A j \in Lidars : j # l => wr'[j] = wr[j]
    BY <1>2, <1>3 DEF LivoxTypeOK
  <1>5. Size \in Nat \ {0} /\ IndexSpace \in Nat \ {0} /\ Size < IndexSpace
    BY SizeFits
  <1>6. /\ wr[l] \in 0 .. IndexSpace - 1 /\ rd[l] \in 0 .. IndexSpace - 1
        /\ Used(l) \in 0 .. IndexSpace - 1
        /\ Used(l) = IF wr[l] < rd[l] THEN wr[l] - rd[l] + IndexSpace ELSE wr[l] - rd[l]
    BY <1>2, CountsAre
  <1>7. Used(l)' = IF wr'[l] < rd[l] THEN wr'[l] - rd[l] + IndexSpace ELSE wr'[l] - rd[l]
    <2>1. Used(l)' = IF wr'[l] < rd'[l] THEN wr'[l] - rd'[l] + IndexSpace
                                        ELSE wr'[l] - rd'[l]
      BY <1>2, CountIs DEF Used, LivoxTypeOK
    <2> QED
      BY <1>1, <2>1
  <1>8. Next1(wr[l]) = IF wr[l] + 1 < IndexSpace THEN wr[l] + 1 ELSE 0
    <2>1. 0 \in 0 .. Size
      BY <1>5
    <2> QED
      BY <1>6, <2>1, IndicesAre
  <1>9. Used(l)' = Used(l) + 1 /\ Used(l) < Size
    <2>1. Used(l) < Size
      BY <1>2 DEF Pushed
    <2> QED
      BY <1>4, <1>5, <1>6, <1>7, <1>8, <2>1
  <1>10. Holds(l)'
    <2>1. Used(l)' <= Size
      BY <1>5, <1>6, <1>9
    <2>2. ASSUME NEW k \in 0 .. Size - 1, k < Used(l)'
          PROVE  slots[l][Waiting(l, k) % Size] = Waiting(l, k)
      <3>1. CASE k < Used(l)
        BY <1>2, <3>1 DEF Holds
      <3>2. CASE k = Used(l)
        <4>1. k \in Nat /\ Used(l) \in Nat /\ k <= Used(l) /\ k \in 0 .. Size
          BY <1>5, <1>6, <3>2
        <4>2. Waiting(l, k) = IF rd[l] + k < IndexSpace THEN rd[l] + k
                                                        ELSE rd[l] + k - IndexSpace
          BY <1>6, <4>1, IndicesAre DEF Waiting
        <4>3. Waiting(l, k) = wr[l]
          BY <1>5, <1>6, <3>2, <4>1, <4>2, Ahead
        <4> QED
          BY <1>2, <4>3 DEF Pushed
      <3> QED
        BY <1>6, <1>9, <2>2, <3>1, <3>2
    <2>3. \A k : Waiting(l, k)' = Waiting(l, k)
      BY <1>1 DEF Waiting
    <2> QED
      BY <1>1, <2>1, <2>2, <2>3 DEF Holds
  <1>11. ASSUME NEW j \in Lidars, j # l PROVE Holds(j)'
    <2>1. Holds(j)
      BY DEF RingInv
    <2> QED
      BY <1>1, <1>4, <1>11, <2>1 DEF Holds, Used, Waiting
  <1>12. ASSUME poll.at = "update" PROVE Copied(known[poll.device])'
    <2> PICK j \in Lidars : j = known[poll.device]
      BY <1>12 DEF TypeInv, LivoxTypeOK, ConfigTypeOK
    <2>1. Copied(j)
      BY <1>12 DEF RingInv
    <2>2. CASE j = l
      <3>1. Used(l)' # 0
        BY <1>6, <1>9
      <3>2. ~IsEmpty(l)'
        BY <1>2, <3>1, CountIs DEF Used, IsEmpty, LivoxTypeOK
      <3> QED
        BY <1>1, <2>1, <2>2, <3>2 DEF Copied
    <2>3. CASE j # l
      BY <1>1, <1>4, <2>1, <2>3 DEF Copied, IsEmpty
    <2> QED
      BY <1>1, <2>2, <2>3 DEF Copied, IsEmpty
  <1> QED
    BY <1>1, <1>10, <1>11, <1>12 DEF RingInv

LEMMA PopRings == TypeInv /\ TypeInv' /\ RingInv /\ PollStep /\ PopUpdate => RingInv'
  <1> SUFFICES ASSUME TypeInv, TypeInv', RingInv, PollStep, PopUpdate PROVE RingInv'
    OBVIOUS
  <1>1. UNCHANGED <<wr, slots, known, process, frame>> /\ poll.at = "update"
    BY DEF PollStep, PopUpdate, configVars, streamVars
  <1>2. poll'.at = "pop"
    BY DEF TypeInv, PopUpdate
  <1> PICK l \in Lidars : l = known[poll.device]
    BY <1>1 DEF TypeInv, LivoxTypeOK, ConfigTypeOK
  <1>3. LivoxTypeOK /\ LivoxTypeOK' /\ Holds(l) /\ ~IsEmpty(l)
    BY <1>1 DEF TypeInv, RingInv, Copied
  <1>4. rd' = [rd EXCEPT ![l] = Next1(rd[l])]
    BY DEF PopUpdate
  <1>5. rd'[l] = Next1(rd[l]) /\ \A j \in Lidars : j # l => rd'[j] = rd[j]
    BY <1>3, <1>4 DEF LivoxTypeOK
  <1>6. Size \in Nat \ {0} /\ IndexSpace \in Nat \ {0} /\ Size < IndexSpace
    BY SizeFits
  <1>7. /\ wr[l] \in 0 .. IndexSpace - 1 /\ rd[l] \in 0 .. IndexSpace - 1
        /\ Used(l) \in 0 .. IndexSpace - 1 /\ Used(l) # 0
        /\ Used(l) = IF wr[l] < rd[l] THEN wr[l] - rd[l] + IndexSpace ELSE wr[l] - rd[l]
    BY <1>3, CountsAre
  <1>8. Used(l)' = IF wr[l] < rd'[l] THEN wr[l] - rd'[l] + IndexSpace ELSE wr[l] - rd'[l]
    <2>1. Used(l)' = IF wr'[l] < rd'[l] THEN wr'[l] - rd'[l] + IndexSpace
                                        ELSE wr'[l] - rd'[l]
      <3>1. wr'[l] \in 0 .. IndexSpace - 1 /\ rd'[l] \in 0 .. IndexSpace - 1
        BY <1>3 DEF LivoxTypeOK
      <3> QED
        BY <3>1, CountIs DEF Used
    <2> QED
      BY <1>1, <2>1
  <1>9. rd'[l] = IF rd[l] + 1 < IndexSpace THEN rd[l] + 1 ELSE 0
    <2>1. 0 \in 0 .. Size
      BY <1>6
    <2> QED
      BY <1>5, <1>7, <2>1, IndicesAre
  <1>10. Used(l)' = Used(l) - 1 /\ Used(l) <= Size
    <2>1. Used(l) <= Size
      BY <1>3 DEF Holds
    <2> QED
      BY <1>6, <1>7, <1>8, <1>9, <2>1
  <1>11. Holds(l)'
    <2>1. Used(l)' <= Size
      BY <1>6, <1>7, <1>10
    <2>2. ASSUME NEW k \in 0 .. Size - 1, k < Used(l)'
          PROVE  Waiting(l, k)' = Waiting(l, k + 1) /\ k + 1 \in 0 .. Size - 1
                   /\ k + 1 < Used(l)
      <3>1. k + 1 \in 0 .. Size - 1 /\ k + 1 < Used(l) /\ k \in 0 .. Size /\ k + 1 \in 0 .. Size
        BY <1>6, <1>7, <1>10, <2>2
      <3>2. rd'[l] \in 0 .. IndexSpace - 1
        BY <1>6, <1>7, <1>9
      <3>3. Waiting(l, k)' = (rd'[l] + k) % IndexSpace
        BY DEF Waiting
      <3>4. Waiting(l, k)' = IF rd'[l] + k < IndexSpace THEN rd'[l] + k
                                                        ELSE rd'[l] + k - IndexSpace
        BY <3>1, <3>2, <3>3, IndicesAre
      <3>5. Waiting(l, k + 1) = IF rd[l] + (k + 1) < IndexSpace THEN rd[l] + (k + 1)
                                                        ELSE rd[l] + (k + 1) - IndexSpace
        BY <1>7, <3>1, IndicesAre DEF Waiting
      <3> QED
        BY <1>6, <1>7, <1>9, <3>1, <3>4, <3>5
    <2>3. ASSUME NEW k \in 0 .. Size - 1, k < Used(l)'
          PROVE  slots'[l][Waiting(l, k)' % Size] = Waiting(l, k)'
      BY <1>1, <1>3, <2>2, <2>3 DEF Holds
    <2> QED
      BY <2>1, <2>3 DEF Holds
  <1>12. ASSUME NEW j \in Lidars, j # l PROVE Holds(j)'
    <2>1. Holds(j)
      BY DEF RingInv
    <2> QED
      BY <1>1, <1>5, <1>12, <2>1 DEF Holds, Used, Waiting
  <1>13. ASSUME process = "bump" PROVE Pushed(Storing)'
    <2> PICK j \in Lidars : j = Storing
      BY <1>13, StoringType DEF TypeInv, LivoxTypeOK
    <2>1. Pushed(j) /\ Storing' = j
      BY <1>1, <1>13 DEF RingInv, Storing
    <2>2. Used(j)' < Size
      <3>1. CASE j = l
        BY <1>6, <1>7, <1>10, <3>1
      <3>2. CASE j # l
        BY <1>1, <1>5, <2>1, <3>2 DEF Pushed, Used
      <3> QED
        BY <3>1, <3>2
    <2> QED
      BY <1>1, <2>1, <2>2 DEF Pushed
  <1> QED
    BY <1>1, <1>2, <1>11, <1>12, <1>13 DEF RingInv

LEMMA PrePopRings == TypeInv /\ RingInv /\ PollStep /\ PrePop => RingInv'
  <1> SUFFICES ASSUME TypeInv, RingInv, PollStep, PrePop PROVE RingInv'
    OBVIOUS
  <1>1. UNCHANGED <<wr, rd, slots, known, process, frame>> /\ poll.at = "pop"
    BY DEF PollStep, PrePop, configVars, streamVars
  <1> PICK l \in Lidars : l = known[poll.device]
    BY <1>1 DEF TypeInv, LivoxTypeOK, ConfigTypeOK
  <1>2. CASE IsEmpty(l)
    <2>1. hand' = hand /\ poll'.at = "scan"
      BY <1>2 DEF PrePop, TypeInv
    <2> QED
      BY <1>1, <2>1, RingKept
  <1>3. CASE ~IsEmpty(l)
    <2>1. hand' = slots[l][rd[l] % Size] /\ poll'.device = poll.device
      BY <1>3 DEF PrePop, TypeInv
    <2>2. Size \in Nat \ {0} /\ IndexSpace \in Nat \ {0} /\ Holds(l) /\ LivoxTypeOK
      BY SizeFits DEF RingInv, TypeInv
    <2>3. rd[l] \in 0 .. IndexSpace - 1 /\ Used(l) \in Nat /\ Used(l) # 0
      BY <1>3, <2>2, CountsAre
    <2>4. 0 \in 0 .. Size /\ 0 \in 0 .. Size - 1 /\ 0 < Used(l)
      BY <2>2, <2>3
    <2>5. Waiting(l, 0) = rd[l]
      <3>1. Waiting(l, 0) = IF rd[l] + 0 < IndexSpace THEN rd[l] + 0
                                                      ELSE rd[l] + 0 - IndexSpace
        BY <2>3, <2>4, IndicesAre DEF Waiting
      <3> QED
        BY <2>2, <2>3, <3>1
    <2>6. hand' = rd[l]
      BY <2>1, <2>2, <2>4, <2>5 DEF Holds
    <2>7. Copied(known[poll.device])'
      BY <1>1, <1>3, <2>1, <2>6 DEF Copied, IsEmpty
    <2>8. ASSUME NEW j \in Lidars PROVE Holds(j)'
      <3>1. Holds(j)
        BY DEF RingInv
      <3> QED
        BY <1>1, <3>1 DEF Holds, Used, Waiting
    <2>9. process = "bump" => Pushed(Storing)'
      <3>1. Storing' = Storing
        BY <1>1 DEF Storing
      <3> QED
        BY <1>1, <3>1 DEF RingInv, Pushed, Used
    <2> QED
      BY <1>1, <2>7, <2>8, <2>9 DEF RingInv
  <1> QED
    BY <1>2, <1>3

LEMMA RingStep == ConfigInv /\ TypeInv /\ TypeInv' /\ RingInv /\ [Next]_vars => RingInv'
  <1> SUFFICES ASSUME ConfigInv, TypeInv, TypeInv', RingInv, [Next]_vars PROVE RingInv'
    OBVIOUS
  <1>1. CASE Configure
    <2>1. UNCHANGED <<wr, rd, slots, hand, process, frame, poll>> /\ ConfigNext
      BY <1>1 DEF Configure, streamVars, ringVars, pollVars
    <2>2. poll.at = "update" => known'[poll.device] = known[poll.device]
      BY <2>1, ConfigGrows DEF TypeInv
    <2> QED
      BY <2>1, <2>2, RingKept
  <1>2. CASE (\E l \in Lidars : RawPacket(l)) \/ Silence \/ Destroy \/ UNCHANGED vars
    <2>1. UNCHANGED <<wr, rd, slots, hand, process, frame, poll, known>>
      BY <1>2 DEF RawPacket, Silence, Destroy, vars, configVars, streamVars, ringVars, pollVars
    <2> QED
      BY <2>1, RingKept
  <1>3. CASE Collects \/ (\E l \in Lidars : FrameEnds(l)) \/ Signal
    <2>1. UNCHANGED <<wr, rd, slots, hand, poll, known>> /\ process' # "bump"
      BY <1>3 DEF Collects, FrameEnds, Signal, StoreNext, configVars, ringVars, pollVars
    <2> QED
      BY <2>1, RingKept
  <1>4. CASE PollStep /\ (PollTop \/ Wait \/ Scan)
    <2>1. UNCHANGED <<wr, rd, slots, hand, process, frame, known>>
      BY <1>4 DEF PollStep, PollTop, Wait, Scan, configVars, streamVars
    <2>2. poll'.at # "update"
      BY <1>4 DEF PollTop, Wait, Scan, RoundEnds, TypeInv
    <2> QED
      BY <2>1, <2>2, RingKept
  <1> QED
    BY <1>1, <1>2, <1>3, <1>4, StoreRings, BumpRings, PopRings, PrePopRings
    DEF Next, ProcessStep, PollStep

\* Rings of any power of two below the index space, any number of lidars, and the
\* indices wrapping round: what the polling thread copies without a lock is always
\* the oldest frame that waits, and no frame that waits is overwritten.
THEOREM RingsAreQueues == Spec => []RingIsFifo
  <1>1. RingInv => RingIsFifo
    <2> SUFFICES ASSUME RingInv PROVE RingIsFifo
      OBVIOUS
    <2>1. \A l \in Lidars : Holds(l)
      BY DEF RingInv
    <2> QED
      BY <2>1 DEF RingInv, RingIsFifo, Holds, Waiting, Copied
  <1>2. Init => ConfigInv
    BY ConfigStart DEF Init
  <1> QED
    BY <1>1, <1>2, ConfigAlways, TypesAlways, RingStart, RingStep, PTL DEF Spec
=============================================================================
