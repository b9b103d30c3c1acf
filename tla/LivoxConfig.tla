---------------------------- MODULE LivoxConfig -----------------------------
(***************************************************************************)
(* How the Livox driver gets to know a lidar and configures it.  The SDK   *)
(* reports a lidar; the driver sends one request per option of the lidar's *)
(* configuration and publishes the lidar's data once all are accepted.     *)
(* Reports and answers come on different threads of the SDK.               *)
(*                                                                         *)
(* Requests that have no effect on this (attitude, work mode, IMU data)    *)
(* are left out.                                                           *)
(***************************************************************************)
EXTENDS Integers, Sequences, FiniteSets

CONSTANTS
  Lidars,          \* the lidars on the network
  ConfigFile,      \* those with an entry in the configuration file, in order
  Options,         \* options each lidar's configuration has, in the order of asking
  MaxSourceLidar,  \* number of device slots
  MaxReports       \* bound: reports of the SDK

\* The elements of a sequence.
Elements(s) == {s[i] : i \in 1 .. Len(s)}
OptionSet(l) == Elements(Options[l])
AllOptions == UNION {OptionSet(l) : l \in Lidars}

Distinct(s) == \A i, j \in 1 .. Len(s) : s[i] = s[j] => i = j

ASSUME ConfigAssumption ==
  /\ Lidars \subseteq Nat \ {0}
  /\ ConfigFile \in Seq(Lidars) /\ Len(ConfigFile) <= MaxSourceLidar
  /\ Distinct(ConfigFile)
  /\ Options \in [Lidars -> Seq(AllOptions)]
  /\ MaxSourceLidar \in Nat /\ MaxReports \in Nat

VARIABLES
  known,     \* index map: the lidars in the order of their device slots
  sampling,  \* lidars whose connect_state is kConnectStateSampling
  setBits,   \* set_bits: options that have not been accepted
  asked,     \* requests that have no answer yet, per lidar and option
  asking,    \* the report in progress, which holds config_mutex_: options left
  reports,   \* reports so far
  accepted   \* history: options the lidar has accepted

configVars == <<known, sampling, setBits, asked, asking, reports, accepted>>

Known(l) == l \in Elements(known)

NoReport == [lidar |-> 0, left |-> <<>>]
MutexFree == asking = NoReport

ConfigInit ==
  /\ known = ConfigFile
  /\ sampling = {}
  /\ setBits = [l \in Lidars |-> {}]
  /\ asked = [l \in Lidars |-> [o \in AllOptions |-> 0]]
  /\ asking = NoReport
  /\ reports = 0
  /\ accepted = [l \in Lidars |-> {}]

\* LidarInfoChangeCallback.  A lidar that is not in the file only gets a device
\* slot; the slot's configuration is all zeros, and zero is a setting, so that a
\* second report asks for every option.
InfoChange(l) ==
  /\ MutexFree /\ reports < MaxReports
  /\ reports' = reports + 1
  /\ IF Known(l)
     THEN /\ asking' = IF Options[l] = <<>> THEN NoReport
                       ELSE [lidar |-> l, left |-> Options[l]]
          /\ UNCHANGED known
     ELSE /\ known' = IF Len(known) < MaxSourceLidar THEN Append(known, l) ELSE known
          /\ UNCHANGED asking
  /\ UNCHANGED <<sampling, setBits, asked, accepted>>

\* The next option of the report in progress.
Ask ==
  /\ ~MutexFree
  /\ LET l == asking.lidar
         o == Head(asking.left)
     IN /\ setBits' = [setBits EXCEPT ![l] = @ \cup {o}]
        /\ asked' = [asked EXCEPT ![l][o] = @ + 1]
        /\ asking' = IF Len(asking.left) = 1 THEN NoReport
                     ELSE [asking EXCEPT !.left = Tail(@)]
  /\ UNCHANGED <<known, sampling, reports, accepted>>

\* Mutant: the lock is not taken.
Accepted_Unlocked(l, o) ==
  /\ asked[l][o] > 0
  /\ asked' = [asked EXCEPT ![l][o] = @ - 1]
  /\ setBits' = [setBits EXCEPT ![l] = @ \ {o}]
  /\ accepted' = [accepted EXCEPT ![l] = @ \cup {o}]
  /\ sampling' = IF setBits'[l] = {} THEN sampling \cup {l} ELSE sampling
  /\ UNCHANGED <<known, asking, reports>>

\* SetDataTypeCallback and its three likes, on success.
Accepted(l, o) ==
  /\ asked[l][o] > 0 /\ MutexFree
  /\ asked' = [asked EXCEPT ![l][o] = @ - 1]
  /\ setBits' = [setBits EXCEPT ![l] = @ \ {o}]
  /\ accepted' = [accepted EXCEPT ![l] = @ \cup {o}]
  /\ sampling' = IF setBits'[l] = {} THEN sampling \cup {l} ELSE sampling
  /\ UNCHANGED <<known, asking, reports>>

\* A timeout sends the same request again; on any other failure it is given up.
NotAccepted(l, o) ==
  /\ asked[l][o] > 0
  /\ asked' \in {asked, [asked EXCEPT ![l][o] = @ - 1]}
  /\ UNCHANGED <<known, sampling, setBits, asking, reports, accepted>>

ConfigNext ==
  \/ \E l \in Lidars : InfoChange(l)
  \/ Ask
  \/ \E l \in Lidars : \E o \in OptionSet(l) : Accepted(l, o) \/ NotAccepted(l, o)

-----------------------------------------------------------------------------

ConfigTypeOK ==
  /\ known \in Seq(Lidars) /\ Len(known) <= MaxSourceLidar
  /\ sampling \subseteq Lidars
  /\ setBits \in [Lidars -> SUBSET AllOptions]
  /\ asked \in [Lidars -> [AllOptions -> Nat]]
  /\ reports \in 0 .. MaxReports
  /\ accepted \in [Lidars -> SUBSET AllOptions]

\* Data of a lidar is let through only after the lidar has accepted every option
\* of its configuration, whatever answers come while requests are still sent.
SamplingMeansConfigured ==
  \A l \in sampling : OptionSet(l) \subseteq accepted[l]
=============================================================================
