--------------------------- MODULE IteratedUpdate ---------------------------
(***************************************************************************)
(* The iterated update of FAST-LIO's filter with one scan                  *)
(* (update_iterated_dyn_share_modified of esekfom.hpp) and the measurement *)
(* model that it calls (h_share_model of laserMapping.cpp).  The linear    *)
(* algebra is abstracted: an estimate is the number of corrections that    *)
(* led to it, the covariance the predicted or the updated one, about some  *)
(* estimate.  What the geometry says, which points lie on a plane and how  *)
(* large a correction is, is any choice.  What the code does with it is    *)
(* exact.                                                                  *)
(***************************************************************************)
EXTENDS Integers, Sequences, FiniteSets

----------------------------------------------------------------------------
(* h_share_model().  A point knows the estimate its neighbours were        *)
(* searched at and whether it is selected.  found are the points that have *)
(* enough neighbours, planar those whose neighbours are a plane close by.  *)

Unsearched == [searched |-> -1, selected |-> FALSE]

Searched(f, i, found) ==
    IF f.converge THEN [searched |-> f.estimate, selected |-> i \in found] ELSE f.points[i]
\* A point once given up is not looked at again before the next search.
Looked(f, i, found, planar) == [Searched(f, i, found) EXCEPT !.selected = @ /\ i \in planar]

Selected(f) == {i \in DOMAIN f.points : f.points[i].selected}
Shared(f, found, planar) == [f EXCEPT !.points = [i \in DOMAIN @ |-> Looked(f, i, found, planar)]]
Valid(f) == Selected(f) # {}

----------------------------------------------------------------------------
(* The filter: f.t counts the corrections that were small.                 *)

Predicted(n) ==
    [estimate |-> 0, covariance |-> [updated |-> FALSE, about |-> 0], points |-> [i \in 1 .. n |-> Unsearched],
     converge |-> TRUE, t |-> 0, looks |-> 0, done |-> FALSE, used |-> {}]

\* The covariance is the predicted one again, carried to the estimate that is
\* now corrected.  The gain is of either form; both give one correction, small
\* or not.
Corrected(f, small) ==
    [f EXCEPT !.estimate = @ + 1, !.covariance = [updated |-> FALSE, about |-> f.estimate], !.used = Selected(f),
              !.converge = small, !.t = IF small THEN @ + 1 ELSE @]
\* Mutant: there is no last search.
Forced_Never(f, i, maximum) == f
\* If nothing has converged, the last iteration searches neighbours anyway.
Forced(f, i, maximum) == IF f.t = 0 /\ i = maximum - 2 THEN [f EXCEPT !.converge = TRUE] ELSE f
Ends(f, i, maximum) == f.t > 1 \/ i = maximum - 1
\* The covariance is updated and carried to the last estimate.
Finished(f) == [f EXCEPT !.covariance = [updated |-> TRUE, about |-> f.estimate], !.done = TRUE]

Iterated(f, i, maximum, found, planar, small) ==
    LET looked == [Shared(f, found, planar) EXCEPT !.looks = @ + 1]
        next == Forced(Corrected(looked, small), i, maximum)
    IN  IF ~ Valid(looked) THEN looked
        ELSE IF Ends(next, i, maximum) THEN Finished(next) ELSE next

\* What iteration i makes of a filter, and all filters there may be after the
\* last one, maximum - 1; the first is number -1.
Updates(f, i, maximum) ==
    IF f.done THEN {f}
    ELSE {Iterated(f, i, maximum, a, b, s) : a \in SUBSET DOMAIN f.points, b \in SUBSET DOMAIN f.points, s \in BOOLEAN}
Update(n, maximum) ==
    LET after[k \in 0 .. maximum + 1] ==
            IF k = 0 THEN {Predicted(n)} ELSE UNION {Updates(f, k - 2, maximum) : f \in after[k - 1]}
    IN  after[maximum + 1]

----------------------------------------------------------------------------
(* Odometry: pose and velocity of the published message.  Poses lie on a   *)
(* line; the velocity is kept as a distance over a time.                   *)

NoPose == [has |-> FALSE, pose |-> 0, time |-> 0, velocity |-> <<0, 1>>]
PublishOdometry(m, pose, time) ==
    [has |-> TRUE, pose |-> pose, time |-> time,
     velocity |-> IF m.has /\ time > m.time THEN <<pose - m.pose, time - m.time>> ELSE m.velocity]
\* The messages of a sequence of poses with their times, after m.
Messages(m, odom) ==
    LET sent[i \in 0 .. Len(odom)] == IF i = 0 THEN m ELSE PublishOdometry(sent[i - 1], odom[i].pose, odom[i].time)
    IN  [i \in DOMAIN odom |-> sent[i]]

----------------------------------------------------------------------------
(* What an update promises.                                                *)

\* An update takes at most maximum + 1 looks.  A filter that was never
\* corrected keeps the covariance it was predicted with.  If the last look found
\* surfaces for a corrected filter, the update is finished: it ended on two small
\* corrections or in its last iteration, and the covariance is the updated one,
\* about the last estimate.  Nothing is said of a corrected filter whose last
\* look found no surfaces.
UpdateIsFinished(f, maximum) ==
    /\ f.looks <= maximum + 1
    /\ f.estimate = 0 => f.covariance = [updated |-> FALSE, about |-> 0]
    /\ f.estimate > 0 /\ Valid(f) => f.done
    /\ f.done => f.covariance = [updated |-> TRUE, about |-> f.estimate] /\ (f.t > 1 \/ f.looks = maximum + 1)

\* The points of the last correction were searched for before it.  If the
\* filter ended after two small corrections, or every look found surfaces, it
\* had corrected the estimate before that search.
NeighboursAreLate(f, maximum) ==
    f.done => \A i \in f.used :
        /\ f.points[i].searched \in 0 .. f.estimate - 1
        /\ f.t > 1 \/ (f.estimate = f.looks /\ maximum >= 1) => f.points[i].searched > 0

\* Whoever follows the published velocities arrives at the published pose, as
\* long as the time rises; also over scans that gave no odometry.
VelocitiesAddUp(odom) ==
    LET sent == Messages(NoPose, odom)
        rising == \A i \in 1 .. Len(odom) - 1 : odom[i].time < odom[i + 1].time
        Way[i \in 0 .. Len(sent)] == IF i <= 1 THEN 0 ELSE Way[i - 1] + sent[i].velocity[1]
    IN  rising /\ odom # <<>> =>
            /\ Way[Len(sent)] = odom[Len(odom)].pose - odom[1].pose
            /\ \A i \in 2 .. Len(sent) : sent[i].velocity[2] = odom[i].time - odom[i - 1].time
============================================================================
