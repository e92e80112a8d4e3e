---------------------------- MODULE RemoteProofs ----------------------------
(***************************************************************************)
(* What is said of an ended job is true of its training, for any number of *)
(* jobs, lost calls, crashes and changes of the dataset.                   *)
(***************************************************************************)
EXTENDS RemoteTraining, SequenceTheorems, TLAPS

USE FailuresAssumption, BoundsAssumption

Rest == <<copyVars, hereVars, dataVars, jobVars, serverVars>>

LEMMA Parts ==
    ASSUME RemoteInv
    PROVE  /\ local \in [Job -> {"none", "running"} \cup TERMINAL]
           /\ run \in [Job -> Thread]
           /\ asked \subseteq Job
           /\ \A j \in Job : run[j] \in Thread
           /\ \A j \in Job : run[j].replace \in BOOLEAN /\ run[j].sent \in BOOLEAN
           /\ \A j \in Job : run[j].failures \in 0..(MaxPollFailures - 1)
           /\ \A j \in Job : run[j].polled \in {"none"} \cup Active \cup TERMINAL
           /\ \A j \in Job : remote[j] \in {"none"} \cup Active \cup TERMINAL
           /\ \A j, k \in Job : Attended(j) /\ Attended(k) => j = k
BY DEF RemoteInv, TypeOK, Thread, LaneInv

LEMMA Labels ==
    ASSUME NEW label \in {"idle", "connect", "dataset", "upload", "sending", "submit", "poll", "logs",
                          "metrics", "fetch", "over"}
    PROVE  /\ ThreadAt(label) \in Thread
           /\ ThreadAt(label).at = label
           /\ ThreadAt(label).polled = "none"
           /\ \A b \in BOOLEAN : /\ [ThreadAt(label) EXCEPT !.replace = b] \in Thread
                                 /\ [ThreadAt(label) EXCEPT !.replace = b].at = label
                                 /\ [ThreadAt(label) EXCEPT !.replace = b].polled = "none"
<1>1. 0 \in 0..(MaxPollFailures - 1)
  OBVIOUS
<1>2. /\ ThreadAt(label) \in Thread
      /\ ThreadAt(label).at = label
      /\ ThreadAt(label).polled = "none"
  BY <1>1 DEF ThreadAt, Thread
<1>3. ASSUME NEW b \in BOOLEAN
      PROVE  /\ [ThreadAt(label) EXCEPT !.replace = b] \in Thread
             /\ [ThreadAt(label) EXCEPT !.replace = b].at = label
             /\ [ThreadAt(label) EXCEPT !.replace = b].polled = "none"
  <2> DEFINE old == ThreadAt(label)
  <2> HIDE DEF old
  <2>1. old \in Thread /\ old.at = label /\ old.polled = "none"
    BY <1>2 DEF old
  <2>2. /\ [old EXCEPT !.replace = b] \in Thread
        /\ [old EXCEPT !.replace = b].at = label
        /\ [old EXCEPT !.replace = b].polled = "none"
    BY <2>1 DEF Thread
  <2> QED BY <2>2 DEF old
<1> QED BY <1>2, <1>3

(* A thread goes on from one call to the next, and nothing else changes.   *)
LEMMA GoesOn ==
    ASSUME RemoteInv, NEW j \in Job, NEW new \in Thread, Goto(j, new), UNCHANGED Rest,
           Attended(j), new.at \notin {"idle", "over"},
           new.at \in {"poll", "logs", "metrics", "fetch"} => remote[j] # "none",
           new.at \in {"connect", "dataset", "upload", "sending", "submit"} => remote[j] = "none",
           new.at \in {"logs", "metrics"} /\ new.polled \in TERMINAL => remote[j] = new.polled,
           new.at = "metrics" /\ new.polled \in TERMINAL => Len(mirror[j]) = written[j],
           new.at = "fetch" => remote[j] = "done" /\ Len(mirror[j]) = written[j],
           new.at # "sending"
    PROVE  RemoteInv'
<1>1. /\ run' = [run EXCEPT ![j] = new] /\ run'[j] = new
      /\ \A k \in Job \ {j} : run'[k] = run[k]
      /\ UNCHANGED <<local, asked, mirror, fetched, engine, here, body, there, remote, written, stopping,
                     server, crashes>>
  BY Parts DEF Goto, Rest, copyVars, hereVars, dataVars, jobVars, serverVars
<1>2. TypeOK'
  BY <1>1, Parts DEF RemoteInv, TypeOK
<1>3. \A k \in Job : Attended(k)' <=> Attended(k)
  BY <1>1 DEF Attended, At
<1>4. LaneInv'
  BY <1>1, <1>3 DEF RemoteInv, LaneInv, At, Attended
<1>5. FreshInv'
  BY <1>1 DEF RemoteInv, FreshInv, At
<1>6. PolledInv'
  BY <1>1 DEF RemoteInv, PolledInv, At
<1>7. UploadInv'
  BY <1>1 DEF RemoteInv, UploadInv, At
<1>8. EndIsHonest' /\ LogIsCopied'
  BY <1>1 DEF RemoteInv, EndIsHonest, LogIsCopied
<1> QED BY <1>2, <1>4, <1>5, <1>6, <1>7, <1>8 DEF RemoteInv

(* A thread ends. The upload it waited for may end with it.                *)
LEMMA Ends ==
    ASSUME RemoteInv, NEW j \in Job, NEW s \in TERMINAL, Exit(j, s), Attended(j),
           UNCHANGED <<copyVars, hereVars, there, jobVars, serverVars>>,
           body' \in {body, [body EXCEPT ![j] = NoBody]},
           s = "done" => remote[j] = "done" /\ Len(mirror[j]) = written[j] /\ fetched[j] = Checkpoints,
           s = "cancelled" => remote[j] = "cancelled"
    PROVE  RemoteInv'
<1>1. /\ run'[j] = ThreadAt("over") /\ local'[j] = s /\ asked' \subseteq asked
      /\ \A k \in Job \ {j} : run'[k] = run[k] /\ local'[k] = local[k]
      /\ run' \in [Job -> Thread] /\ local' \in [Job -> {"none", "running"} \cup TERMINAL]
      /\ UNCHANGED <<mirror, fetched, engine, here, there, remote, written, stopping, server, crashes>>
  BY Parts, Labels DEF Exit, copyVars, hereVars, jobVars, serverVars
<1>2. ThreadAt("over").at = "over" /\ s # "running" /\ s # "none"
  BY Labels DEF TERMINAL
<1>3. /\ body' \in [Job -> [stage : {"none", "coming", "received"}, version : Nat]]
      /\ \A k \in Job : body'[k].stage # "none" => body'[k] = body[k]
  <2>1. body \in [Job -> [stage : {"none", "coming", "received"}, version : Nat]]
    BY DEF RemoteInv, TypeOK
  <2>2. CASE body' = body
    BY <2>1, <2>2
  <2>3. CASE body' = [body EXCEPT ![j] = NoBody]
    BY <2>1, <2>3 DEF NoBody
  <2> QED BY <2>2, <2>3
<1>4. TypeOK'
  BY <1>1, <1>3 DEF RemoteInv, TypeOK
<1>5. LaneInv'
  BY <1>1, <1>2 DEF RemoteInv, LaneInv, At, Attended
<1>6. FreshInv'
  BY <1>1, <1>2 DEF RemoteInv, FreshInv, At
<1>7. PolledInv'
  BY <1>1, <1>2 DEF RemoteInv, PolledInv, At
<1>8. UploadInv'
  BY <1>1, <1>2, <1>3 DEF RemoteInv, UploadInv, At
<1>9. EndIsHonest' /\ LogIsCopied'
  BY <1>1 DEF RemoteInv, EndIsHonest, LogIsCopied
<1> QED BY <1>4, <1>5, <1>6, <1>7, <1>8, <1>9 DEF RemoteInv

-----------------------------------------------------------------------------
LEMMA StartKeeps ==
    ASSUME RemoteInv, NEW j \in Job, Start(j)
    PROVE  RemoteInv'
<1>1. /\ run'[j] = ThreadAt("connect") /\ local'[j] = "running"
      /\ \A k \in Job \ {j} : run'[k] = run[k] /\ local'[k] = local[k]
      /\ run' \in [Job -> Thread] /\ local' \in [Job -> {"none", "running"} \cup TERMINAL]
      /\ UNCHANGED <<asked, mirror, fetched, engine, here, body, there, remote, written, stopping, server,
                     crashes>>
  BY Parts, Labels DEF Start, copyVars, hereVars, dataVars, jobVars, serverVars
<1>2. ThreadAt("connect").at = "connect"
  BY Labels
<1>3. At(j) = "idle" /\ remote[j] = "none" /\ \A k \in Job : ~Attended(k)
  BY DEF Start, RemoteInv, LaneInv, FreshInv
<1>4. TypeOK'
  BY <1>1 DEF RemoteInv, TypeOK
<1>5. LaneInv'
  BY <1>1, <1>2, <1>3 DEF RemoteInv, LaneInv, At, Attended
<1>6. FreshInv'
  BY <1>1, <1>2, <1>3 DEF RemoteInv, FreshInv, At
<1>7. PolledInv'
  BY <1>1, <1>2 DEF RemoteInv, PolledInv, At
<1>8. UploadInv'
  BY <1>1, <1>2 DEF RemoteInv, UploadInv, At
<1>9. EndIsHonest' /\ LogIsCopied'
  BY <1>1 DEF RemoteInv, EndIsHonest, LogIsCopied
<1> QED BY <1>4, <1>5, <1>6, <1>7, <1>8, <1>9 DEF RemoteInv

LEMMA CancelKeeps ==
    ASSUME RemoteInv, NEW j \in Job, Cancel(j)
    PROVE  RemoteInv'
<1>1. /\ asked' \subseteq Job
      /\ UNCHANGED <<local, run, mirror, fetched, engine, here, body, there, remote, written, stopping, server,
                     crashes>>
  BY Parts DEF Cancel, copyVars, hereVars, dataVars, jobVars, serverVars
<1> QED BY <1>1 DEF RemoteInv, TypeOK, LaneInv, FreshInv, PolledInv, UploadInv, EndIsHonest, LogIsCopied,
                    At, Attended

LEMMA EndEngineKeeps ==
    ASSUME RemoteInv, EndEngine
    PROVE  RemoteInv'
<1>1. /\ \A k \in Job : run'[k] = ThreadAt("over")
      /\ \A k \in Job : local'[k] = IF local[k] = "running" THEN "failed" ELSE local[k]
      /\ run' \in [Job -> Thread] /\ local' \in [Job -> {"none", "running"} \cup TERMINAL]
      /\ asked' = {} /\ engine' = "ended"
      /\ UNCHANGED <<mirror, fetched, here, there, remote, written, stopping, server, crashes>>
  <2>1. \A k \in Job : ThreadAt("over") \in Thread
    BY Labels
  <2>2. [k \in Job |-> IF local[k] = "running" THEN "failed" ELSE local[k]]
            \in [Job -> {"none", "running"} \cup TERMINAL]
    BY Parts DEF TERMINAL
  <2> QED BY <2>1, <2>2 DEF EndEngine, copyVars, jobVars, serverVars
<1>2. ThreadAt("over").at = "over"
  BY Labels
<1>3. /\ body' \in [Job -> [stage : {"none", "coming", "received"}, version : Nat]]
      /\ \A k \in Job : body'[k].stage # "none" => body'[k] = body[k]
  BY DEF EndEngine, RemoteInv, TypeOK, NoBody
<1>4. TypeOK'
  BY <1>1, <1>3 DEF RemoteInv, TypeOK
<1>5. LaneInv'
  BY <1>1, <1>2 DEF RemoteInv, LaneInv, At, Attended
<1>6. FreshInv'
  BY <1>1, <1>2 DEF RemoteInv, FreshInv, At
<1>7. PolledInv'
  BY <1>1, <1>2 DEF RemoteInv, PolledInv, At
<1>8. UploadInv'
  BY <1>1, <1>2, <1>3 DEF RemoteInv, UploadInv, At
<1>9. EndIsHonest' /\ LogIsCopied'
  BY <1>1 DEF RemoteInv, EndIsHonest, LogIsCopied
<1> QED BY <1>4, <1>5, <1>6, <1>7, <1>8, <1>9 DEF RemoteInv

LEMMA CallFailsKeeps ==
    ASSUME RemoteInv, NEW j \in Job, CallFails(j)
    PROVE  RemoteInv'
BY Ends DEF CallFails, Attended, dataVars, TERMINAL

LEMMA UploadFailsKeeps ==
    ASSUME RemoteInv, NEW j \in Job, UploadFails(j)
    PROVE  RemoteInv'
BY Ends DEF UploadFails, Attended, TERMINAL

LEMMA ConnectKeeps ==
    ASSUME RemoteInv, NEW j \in Job, Connect(j)
    PROVE  RemoteInv'
<1>1. /\ run'[j] = ThreadAt("dataset")
      /\ \A k \in Job \ {j} : run'[k] = run[k]
      /\ run' \in [Job -> Thread] /\ server' = "up"
      /\ UNCHANGED <<local, asked, mirror, fetched, engine, here, body, there, written, stopping, crashes>>
  BY Parts, Labels DEF Connect, Goto, copyVars, hereVars, dataVars
<1>2. ThreadAt("dataset").at = "dataset" /\ At(j) = "connect"
  BY Labels DEF Connect
<1>3. /\ remote' \in [Job -> {"none"} \cup Active \cup TERMINAL]
      /\ \A k \in Job : /\ remote[k] \notin Active => remote'[k] = remote[k]
                        /\ remote'[k] = "none" <=> remote[k] = "none"
                        /\ remote'[k] \in Active => remote'[k] = remote[k] /\ server = "up"
  <2>1. \A k \in Job : remote'[k] = IF server = "down" /\ remote[k] \in Active THEN "failed" ELSE remote[k]
    BY DEF Connect
  <2>2. server \in {"up", "down"} /\ DOMAIN remote' = Job
    BY DEF Connect, RemoteInv, TypeOK
  <2>3. "failed" \in TERMINAL /\ "failed" \notin Active /\ "none" \notin Active
    BY DEF TERMINAL, Active
  <2>4. \A k \in Job : remote'[k] \in {"none"} \cup Active \cup TERMINAL
    BY <2>1, <2>3, Parts
  <2>5. remote' \in [Job -> {"none"} \cup Active \cup TERMINAL]
    BY <2>4 DEF Connect
  <2> QED BY <2>1, <2>2, <2>3, <2>5
<1>4. TypeOK'
  BY <1>1, <1>3 DEF RemoteInv, TypeOK
<1>5. LaneInv'
  BY <1>1, <1>2 DEF RemoteInv, LaneInv, At, Attended
<1>6. FreshInv'
  BY <1>1, <1>2, <1>3 DEF RemoteInv, FreshInv, At
<1>7. PolledInv'
  BY <1>1, <1>2, <1>3 DEF RemoteInv, PolledInv, At, TERMINAL, Active
<1>8. UploadInv'
  BY <1>1, <1>2, <1>3 DEF RemoteInv, UploadInv, At
<1>9. EndIsHonest' /\ LogIsCopied'
  BY <1>1, <1>3 DEF RemoteInv, EndIsHonest, LogIsCopied, Active
<1> QED BY <1>4, <1>5, <1>6, <1>7, <1>8, <1>9 DEF RemoteInv

LEMMA EnsureDatasetKeeps ==
    ASSUME RemoteInv, NEW j \in Job, EnsureDataset(j)
    PROVE  RemoteInv'
<1>1. PICK b \in BOOLEAN : b = (there.owner = "transfer")
  OBVIOUS
<1>2. PICK new \in {ThreadAt("submit"), [ThreadAt("upload") EXCEPT !.replace = b]} :
         Goto(j, new)
  <2>1. CASE Goto(j, ThreadAt("submit"))
    BY <2>1
  <2>2. CASE Goto(j, [ThreadAt("upload") EXCEPT !.replace = there.owner = "transfer"])
    BY <1>1, <2>2
  <2> QED BY <2>1, <2>2 DEF EnsureDataset
<1>3. new \in Thread /\ new.at \in {"submit", "upload"} /\ new.polled = "none"
  <2>1. CASE new = ThreadAt("submit")
    BY <2>1, Labels
  <2>2. CASE new = [ThreadAt("upload") EXCEPT !.replace = b]
    BY ZenonT(60), <1>1, <2>2, Labels
  <2> QED BY <1>2, <2>1, <2>2
<1>4. Attended(j) /\ remote[j] = "none" /\ UNCHANGED Rest
  BY DEF EnsureDataset, Attended, RemoteInv, FreshInv, Rest
<1>5. new.at \notin {"idle", "over", "poll", "logs", "metrics", "fetch", "sending"}
  BY <1>3
<1> QED BY <1>2, <1>3, <1>4, <1>5, GoesOn

LEMMA UploadKeeps ==
    ASSUME RemoteInv, NEW j \in Job, Upload(j)
    PROVE  RemoteInv'
<1>1. /\ run'[j] = ThreadAt("sending")
      /\ \A k \in Job \ {j} : run'[k] = run[k]
      /\ run' \in [Job -> Thread]
      /\ UNCHANGED <<local, asked, mirror, fetched, engine, here, there, remote, written, stopping, server, crashes>>
  BY Parts, Labels DEF Upload, Goto, copyVars, hereVars, jobVars, serverVars
<1>2. ThreadAt("sending").at = "sending" /\ At(j) = "upload" /\ server = "up" /\ remote[j] = "none"
  BY Labels DEF Upload, RemoteInv, FreshInv
<1>3. /\ body' \in [Job -> [stage : {"none", "coming", "received"}, version : Nat]]
      /\ \A k \in Job \ {j} : body'[k] = body[k]
  BY DEF Upload, RemoteInv, TypeOK
<1>4. \A k \in Job : remote[k] \notin Active
  BY DEF Upload, Accepts, RemoteInv, UploadInv
<1>5. TypeOK'
  BY <1>1, <1>3 DEF RemoteInv, TypeOK
<1>6. LaneInv'
  BY <1>1, <1>2 DEF RemoteInv, LaneInv, At, Attended
<1>7. FreshInv'
  BY <1>1, <1>2 DEF RemoteInv, FreshInv, At
<1>8. PolledInv'
  BY <1>1, <1>2 DEF RemoteInv, PolledInv, At
<1>9. UploadInv'
  BY <1>1, <1>2, <1>3, <1>4 DEF RemoteInv, UploadInv, At
<1>10. EndIsHonest' /\ LogIsCopied'
  BY <1>1 DEF RemoteInv, EndIsHonest, LogIsCopied
<1> QED BY <1>5, <1>6, <1>7, <1>8, <1>9, <1>10 DEF RemoteInv

LEMMA ReceiveKeeps ==
    ASSUME RemoteInv, NEW j \in Job, Receive(j)
    PROVE  RemoteInv'
<1>1. /\ UNCHANGED <<local, run, asked, mirror, fetched, engine, here, there, remote, written, stopping, server,
                     crashes>>
  BY DEF Receive, threadVars, copyVars, hereVars, jobVars, serverVars
<1>2. /\ body' \in [Job -> [stage : {"none", "coming", "received"}, version : Nat]]
      /\ \A k \in Job : body'[k].stage # "none" => body[k].stage # "none"
  BY DEF Receive, RemoteInv, TypeOK
<1>3. TypeOK'
  BY <1>1, <1>2 DEF RemoteInv, TypeOK
<1>4. UploadInv'
  BY <1>1, <1>2 DEF RemoteInv, UploadInv, At
<1> QED BY <1>1, <1>3, <1>4 DEF RemoteInv, LaneInv, FreshInv, PolledInv, EndIsHonest, LogIsCopied, At, Attended

LEMMA SwapKeeps ==
    ASSUME RemoteInv, NEW j \in Job, Swap(j)
    PROVE  RemoteInv'
<1>1. /\ there' = [version |-> body[j].version, owner |-> "transfer"]
      /\ body' = [body EXCEPT ![j] = NoBody]
      /\ UNCHANGED <<mirror, fetched, engine, here, remote, written, stopping, server, crashes>>
  BY DEF Swap, copyVars, hereVars, jobVars, serverVars
<1>2. /\ body' \in [Job -> [stage : {"none", "coming", "received"}, version : Nat]]
      /\ there' \in [version : Nat, owner : {"nobody", "transfer", "user"}] /\ there'.owner # "nobody"
      /\ \A k \in Job : body'[k].stage # "none" => body'[k] = body[k]
  <2>1. body \in [Job -> [stage : {"none", "coming", "received"}, version : Nat]]
    BY DEF RemoteInv, TypeOK
  <2> QED BY <1>1, <2>1 DEF NoBody
<1>3. CASE At(j) = "sending" /\ Goto(j, ThreadAt("submit"))
  <2>1. /\ run'[j] = ThreadAt("submit") /\ ThreadAt("submit").at = "submit"
        /\ \A k \in Job \ {j} : run'[k] = run[k]
        /\ run' \in [Job -> Thread] /\ UNCHANGED <<local, asked>>
    BY <1>3, Parts, Labels DEF Goto
  <2>2. TypeOK'
    BY <1>1, <1>2, <2>1 DEF RemoteInv, TypeOK
  <2>3. LaneInv'
    BY <1>1, <1>3, <2>1 DEF RemoteInv, LaneInv, At, Attended
  <2>4. FreshInv'
    BY <1>1, <1>3, <2>1 DEF RemoteInv, FreshInv, At
  <2>5. PolledInv'
    BY <1>1, <2>1 DEF RemoteInv, PolledInv, At
  <2>6. UploadInv'
    BY <1>1, <1>2, <2>1 DEF RemoteInv, UploadInv, At
  <2>7. EndIsHonest' /\ LogIsCopied'
    BY <1>1, <2>1 DEF RemoteInv, EndIsHonest, LogIsCopied
  <2> QED BY <2>2, <2>3, <2>4, <2>5, <2>6, <2>7 DEF RemoteInv
<1>4. CASE At(j) = "sending" /\ Exit(j, "failed")
  <2>1. /\ run'[j] = ThreadAt("over") /\ ThreadAt("over").at = "over" /\ local'[j] = "failed"
        /\ \A k \in Job \ {j} : run'[k] = run[k] /\ local'[k] = local[k]
        /\ run' \in [Job -> Thread] /\ local' \in [Job -> {"none", "running"} \cup TERMINAL]
        /\ asked' \subseteq Job
    BY <1>4, Parts, Labels DEF Exit, TERMINAL
  <2>2. TypeOK'
    BY <1>1, <1>2, <2>1 DEF RemoteInv, TypeOK
  <2>3. LaneInv'
    BY <1>1, <2>1 DEF RemoteInv, LaneInv, At, Attended
  <2>4. FreshInv'
    BY <1>1, <2>1 DEF RemoteInv, FreshInv, At
  <2>5. PolledInv'
    BY <1>1, <2>1 DEF RemoteInv, PolledInv, At
  <2>6. UploadInv'
    BY <1>1, <1>2, <2>1 DEF RemoteInv, UploadInv, At
  <2>7. EndIsHonest' /\ LogIsCopied'
    BY <1>1, <2>1 DEF RemoteInv, EndIsHonest, LogIsCopied
  <2> QED BY <2>2, <2>3, <2>4, <2>5, <2>6, <2>7 DEF RemoteInv
<1>5. CASE UNCHANGED threadVars
  <2>1. UNCHANGED <<local, run, asked>>
    BY <1>5 DEF threadVars
  <2>2. TypeOK'
    BY <1>1, <1>2, <2>1 DEF RemoteInv, TypeOK
  <2>3. UploadInv'
    BY <1>1, <1>2, <2>1 DEF RemoteInv, UploadInv, At
  <2> QED BY <1>1, <2>1, <2>2, <2>3 DEF RemoteInv, LaneInv, FreshInv, PolledInv, EndIsHonest, LogIsCopied, At,
                                        Attended
<1> QED BY <1>3, <1>4, <1>5 DEF Swap

LEMMA SubmitKeeps ==
    ASSUME RemoteInv, NEW j \in Job, Submit(j)
    PROVE  RemoteInv'
<1>1. /\ At(j) = "submit" /\ there.owner # "nobody"
      /\ remote' = [remote EXCEPT ![j] = "queued"]
      /\ UNCHANGED <<mirror, fetched, engine, here, body, there, written, stopping, server, crashes>>
  BY DEF Submit, copyVars, hereVars, dataVars, serverVars
<1>2. /\ remote' \in [Job -> {"none"} \cup Active \cup TERMINAL] /\ remote'[j] = "queued"
      /\ \A k \in Job \ {j} : remote'[k] = remote[k]
  BY <1>1 DEF RemoteInv, TypeOK, Active
<1>3. \A k \in Job : At(k) = "sending" => k = j
  BY <1>1, Parts DEF Attended
<1>4. local[j] = "running"
  BY <1>1 DEF RemoteInv, LaneInv, Attended
<1>5. CASE Goto(j, ThreadAt("poll"))
  <2>1. /\ run'[j] = ThreadAt("poll") /\ ThreadAt("poll").at = "poll"
        /\ \A k \in Job \ {j} : run'[k] = run[k]
        /\ run' \in [Job -> Thread] /\ UNCHANGED <<local, asked>>
    BY <1>5, Parts, Labels DEF Goto
  <2>2. TypeOK'
    BY <1>1, <1>2, <2>1 DEF RemoteInv, TypeOK
  <2>3. LaneInv'
    BY <1>1, <2>1 DEF RemoteInv, LaneInv, At, Attended
  <2>4. FreshInv'
    BY <1>1, <1>2, <2>1 DEF RemoteInv, FreshInv, At
  <2>5. PolledInv'
    BY <1>1, <1>2, <2>1 DEF RemoteInv, PolledInv, At
  <2>6. UploadInv'
    BY <1>1, <1>2, <1>3, <2>1 DEF RemoteInv, UploadInv, At
  <2>7. EndIsHonest' /\ LogIsCopied'
    BY <1>1, <1>2, <1>4, <2>1 DEF RemoteInv, EndIsHonest, LogIsCopied
  <2> QED BY <2>2, <2>3, <2>4, <2>5, <2>6, <2>7 DEF RemoteInv
<1>6. CASE Exit(j, "failed")
  <2>1. /\ run'[j] = ThreadAt("over") /\ ThreadAt("over").at = "over" /\ local'[j] = "failed"
        /\ \A k \in Job \ {j} : run'[k] = run[k] /\ local'[k] = local[k]
        /\ run' \in [Job -> Thread] /\ local' \in [Job -> {"none", "running"} \cup TERMINAL]
        /\ asked' \subseteq Job
    BY <1>6, Parts, Labels DEF Exit, TERMINAL
  <2>2. TypeOK'
    BY <1>1, <1>2, <2>1 DEF RemoteInv, TypeOK
  <2>3. LaneInv'
    BY <1>1, <2>1 DEF RemoteInv, LaneInv, At, Attended
  <2>4. FreshInv'
    BY <1>1, <1>2, <2>1 DEF RemoteInv, FreshInv, At
  <2>5. PolledInv'
    BY <1>1, <1>2, <2>1 DEF RemoteInv, PolledInv, At
  <2>6. UploadInv'
    BY <1>1, <1>2, <1>3, <2>1 DEF RemoteInv, UploadInv, At
  <2>7. EndIsHonest' /\ LogIsCopied'
    BY <1>1, <1>2, <2>1 DEF RemoteInv, EndIsHonest, LogIsCopied
  <2> QED BY <2>2, <2>3, <2>4, <2>5, <2>6, <2>7 DEF RemoteInv
<1> QED BY <1>5, <1>6 DEF Submit

-----------------------------------------------------------------------------
LEMMA SendCancelKeeps ==
    ASSUME RemoteInv, NEW j \in Job, SendCancel(j)
    PROVE  RemoteInv'
<1>1. /\ At(j) = "poll"
      /\ UNCHANGED <<mirror, fetched, engine, here, body, there, written, server, crashes>>
  BY DEF SendCancel, copyVars, hereVars, dataVars, serverVars
<1>2. /\ remote' \in [Job -> {"none"} \cup Active \cup TERMINAL] /\ stopping' \subseteq Job
      /\ \A k \in Job : remote'[k] \in Active => remote[k] \in Active
      /\ \A k \in Job : remote'[k] = "none" <=> remote[k] = "none"
      /\ \A k \in Job \ {j} : remote'[k] = remote[k]
  <2>1. remote \in [Job -> {"none"} \cup Active \cup TERMINAL] /\ stopping \subseteq Job
    BY DEF RemoteInv, TypeOK
  <2>2. CASE remote[j] = "queued" /\ remote' = [remote EXCEPT ![j] = "cancelled"] /\ UNCHANGED stopping
    BY <2>1, <2>2 DEF Active, TERMINAL
  <2>3. CASE remote' = remote /\ stopping' \in {stopping, stopping \cup {j}}
    BY <2>1, <2>3
  <2> QED BY <2>2, <2>3 DEF SendCancel, CancelThere
<1>3. local[j] = "running"
  BY <1>1 DEF RemoteInv, LaneInv, Attended
<1>4. CASE Goto(j, [run[j] EXCEPT !.sent = TRUE])
  <2>1. /\ run'[j].at = "poll"
        /\ \A k \in Job \ {j} : run'[k] = run[k]
        /\ run' \in [Job -> Thread] /\ UNCHANGED <<local, asked>>
    <3>1. [run[j] EXCEPT !.sent = TRUE] \in Thread /\ [run[j] EXCEPT !.sent = TRUE].at = "poll"
      BY <1>1, Parts DEF Thread, At
    <3> QED BY <1>4, <3>1, Parts DEF Goto
  <2>2. TypeOK'
    BY <1>1, <1>2, <2>1 DEF RemoteInv, TypeOK
  <2>3. LaneInv'
    BY <1>1, <2>1 DEF RemoteInv, LaneInv, At, Attended
  <2>4. FreshInv'
    BY <1>1, <1>2, <2>1 DEF RemoteInv, FreshInv, At
  <2>5. PolledInv'
    BY <1>1, <1>2, <2>1 DEF RemoteInv, PolledInv, At
  <2>6. UploadInv'
    BY <1>1, <1>2, <2>1 DEF RemoteInv, UploadInv, At
  <2>7. EndIsHonest' /\ LogIsCopied'
    BY <1>1, <1>2, <1>3, <2>1 DEF RemoteInv, EndIsHonest, LogIsCopied
  <2> QED BY <2>2, <2>3, <2>4, <2>5, <2>6, <2>7 DEF RemoteInv
<1>5. CASE Exit(j, "failed")
  <2>1. /\ run'[j] = ThreadAt("over") /\ ThreadAt("over").at = "over" /\ local'[j] = "failed"
        /\ \A k \in Job \ {j} : run'[k] = run[k] /\ local'[k] = local[k]
        /\ run' \in [Job -> Thread] /\ local' \in [Job -> {"none", "running"} \cup TERMINAL]
        /\ asked' \subseteq Job
    BY <1>5, Parts, Labels DEF Exit, TERMINAL
  <2>2. TypeOK'
    BY <1>1, <1>2, <2>1 DEF RemoteInv, TypeOK
  <2>3. LaneInv'
    BY <1>1, <2>1 DEF RemoteInv, LaneInv, At, Attended
  <2>4. FreshInv'
    BY <1>1, <1>2, <2>1 DEF RemoteInv, FreshInv, At
  <2>5. PolledInv'
    BY <1>1, <1>2, <2>1 DEF RemoteInv, PolledInv, At
  <2>6. UploadInv'
    BY <1>1, <1>2, <2>1 DEF RemoteInv, UploadInv, At
  <2>7. EndIsHonest' /\ LogIsCopied'
    BY <1>1, <1>2, <2>1 DEF RemoteInv, EndIsHonest, LogIsCopied
  <2> QED BY <2>2, <2>3, <2>4, <2>5, <2>6, <2>7 DEF RemoteInv
<1> QED BY <1>4, <1>5 DEF SendCancel

LEMMA ReadJobKeeps ==
    ASSUME RemoteInv, NEW j \in Job, ReadJob(j)
    PROVE  RemoteInv'
<1> DEFINE new == [run[j] EXCEPT !.at = "logs", !.polled = remote[j]]
<1>1. new \in Thread /\ new.at = "logs" /\ new.polled = remote[j]
  BY Parts DEF Thread
<1>2. Goto(j, new) /\ UNCHANGED Rest /\ At(j) = "poll"
  BY DEF ReadJob, Polls, Rest
<1>3. Attended(j) /\ remote[j] # "none"
  BY <1>2 DEF Attended, RemoteInv, FreshInv
<1> HIDE DEF new
<1> QED BY <1>1, <1>2, <1>3, GoesOn

(* What continues a copy that is exact so far makes a longer exact copy.   *)
LEMMA ExactGrows ==
    ASSUME NEW old \in Seq(Nat), NEW n \in Nat, Len(old) <= n, \A i \in 1..Len(old) : old[i] = i,
           NEW more \in Seq(Nat), more = [i \in 1..(n - Len(old)) |-> Len(old) + i]
    PROVE  /\ old \o more \in Seq(Nat)
           /\ Len(old \o more) = n
           /\ \A i \in 1..n : (old \o more)[i] = i
<1>1. Len(old) \in Nat
  OBVIOUS
<1>2. n - Len(old) \in Nat
  BY <1>1
<1>3. Len(more) = n - Len(old)
  BY <1>2
<1>4. /\ old \o more \in Seq(Nat)
      /\ Len(old \o more) = n
  BY <1>1, <1>3, ConcatProperties
<1>5. ASSUME NEW i \in 1..n PROVE (old \o more)[i] = i
  <2>1. CASE i <= Len(old)
    BY <1>1, <1>3, <2>1, ConcatProperties
  <2>2. CASE i > Len(old)
    <3>1. i - Len(old) \in 1..(n - Len(old))
      BY <1>1, <2>2
    <3>2. more[i - Len(old)] = Len(old) + (i - Len(old))
      BY <3>1
    <3>3. (old \o more)[i] = more[i - Len(old)]
      BY <1>1, <1>3, <2>2, ConcatProperties
    <3> QED BY <1>1, <3>2, <3>3
  <2> QED BY <1>1, <2>1, <2>2
<1> QED BY <1>4, <1>5

LEMMA LogGrows ==
    ASSUME RemoteInv, NEW j \in Job, NEW log, log = mirror[j] \o LinesFrom(j, Len(mirror[j]))
    PROVE  /\ log \in Seq(Nat)
           /\ Len(log) = written[j]
           /\ \A i \in DOMAIN log : log[i] = i
<1>1. /\ mirror[j] \in Seq(Nat) /\ written[j] \in Nat /\ Len(mirror[j]) \in Nat
      /\ Len(mirror[j]) <= written[j] /\ \A i \in 1..Len(mirror[j]) : mirror[j][i] = i
  BY DEF RemoteInv, TypeOK, LogIsCopied
<1>2. PICK old, n, more : /\ old = mirror[j] /\ n = written[j] /\ more = LinesFrom(j, Len(mirror[j]))
  OBVIOUS
<1>3. /\ old \in Seq(Nat) /\ n \in Nat /\ Len(old) \in Nat
      /\ Len(old) <= n /\ \A i \in 1..Len(old) : old[i] = i
  BY <1>1, <1>2
<1>4. more = [i \in 1..(n - Len(old)) |-> Len(old) + i]
  BY <1>2 DEF LinesFrom
<1>5. more \in Seq(Nat)
  <2>1. n - Len(old) \in Nat
    BY <1>3
  <2>2. \A i \in 1..(n - Len(old)) : Len(old) + i \in Nat
    BY <1>3
  <2> QED BY <1>4, <2>1, <2>2
<1>6. /\ old \o more \in Seq(Nat) /\ Len(old \o more) = n /\ \A i \in 1..n : (old \o more)[i] = i
  BY <1>3, <1>4, <1>5, ExactGrows
<1>7. log = old \o more
  BY <1>2
<1>8. log \in Seq(Nat) /\ Len(log) = n /\ \A i \in 1..n : log[i] = i
  BY <1>6, <1>7
<1>9. DOMAIN log = 1..n
  BY <1>8, LenProperties
<1> QED BY <1>2, <1>8, <1>9

LEMMA ReadLogsKeeps ==
    ASSUME RemoteInv, NEW j \in Job, ReadLogs(j)
    PROVE  RemoteInv'
<1>1. /\ At(j) = "logs" /\ local[j] = "running" /\ remote[j] # "none"
      /\ UNCHANGED <<local, asked, fetched, engine, here, body, there, remote, written, stopping, server, crashes>>
  BY DEF ReadLogs, Goto, hereVars, dataVars, jobVars, serverVars, RemoteInv, LaneInv, Attended, FreshInv
<1>2. /\ run'[j].at = "metrics" /\ run'[j].polled = run[j].polled
      /\ \A k \in Job \ {j} : run'[k] = run[k]
      /\ run' \in [Job -> Thread]
  <2>1. [run[j] EXCEPT !.at = "metrics"] \in Thread
    BY Parts DEF Thread
  <2> QED BY <2>1, Parts DEF ReadLogs, Goto, Thread
<1>3. /\ mirror' \in [Job -> Seq(Nat)] /\ Len(mirror'[j]) = written[j]
      /\ \A i \in DOMAIN mirror'[j] : mirror'[j][i] = i
      /\ \A k \in Job \ {j} : mirror'[k] = mirror[k]
  <2>1. PICK log : log = mirror[j] \o LinesFrom(j, Len(mirror[j]))
    OBVIOUS
  <2>2. mirror' = [mirror EXCEPT ![j] = log] /\ mirror \in [Job -> Seq(Nat)]
    BY <2>1 DEF ReadLogs, RemoteInv, TypeOK
  <2> QED BY <2>1, <2>2, LogGrows
<1>4. TypeOK'
  BY <1>1, <1>2, <1>3 DEF RemoteInv, TypeOK
<1>5. LaneInv'
  BY <1>1, <1>2 DEF RemoteInv, LaneInv, At, Attended
<1>6. FreshInv'
  BY <1>1, <1>2, <1>3 DEF RemoteInv, FreshInv, At
<1>7. PolledInv'
  BY <1>1, <1>2, <1>3 DEF RemoteInv, PolledInv, At
<1>8. UploadInv'
  BY <1>1, <1>2 DEF RemoteInv, UploadInv, At
<1>9. EndIsHonest'
  BY <1>1, <1>3 DEF RemoteInv, EndIsHonest
<1>10. LogIsCopied'
  <2>1. \A k \in Job : written[k] \in Nat
    BY DEF RemoteInv, TypeOK
  <2> QED BY <1>1, <1>3, <2>1 DEF RemoteInv, LogIsCopied
<1> QED BY <1>4, <1>5, <1>6, <1>7, <1>8, <1>9, <1>10 DEF RemoteInv

LEMMA ReadMetricsKeeps ==
    ASSUME RemoteInv, NEW j \in Job, ReadMetrics(j)
    PROVE  RemoteInv'
<1>1. At(j) = "metrics" /\ Attended(j) /\ remote[j] # "none" /\ UNCHANGED Rest
  BY DEF ReadMetrics, Attended, RemoteInv, FreshInv, Rest
<1>2. run[j].polled \in TERMINAL => remote[j] = run[j].polled /\ Len(mirror[j]) = written[j]
  BY <1>1 DEF RemoteInv, PolledInv
<1>3. CASE run[j].polled \in {"cancelled", "failed"} /\ Exit(j, run[j].polled)
  <2>1. run[j].polled \in TERMINAL
    BY <1>3 DEF TERMINAL
  <2>2. UNCHANGED <<copyVars, hereVars, there, jobVars, serverVars>> /\ body' = body
    BY <1>1 DEF Rest, dataVars
  <2> QED BY <1>1, <1>2, <1>3, <2>1, <2>2, Ends
<1>4. CASE run[j].polled = "done" /\ Goto(j, ThreadAt("fetch"))
  <2>1. ThreadAt("fetch") \in Thread /\ ThreadAt("fetch").at = "fetch"
    BY Labels
  <2>2. remote[j] = "done" /\ Len(mirror[j]) = written[j]
    BY <1>2, <1>4 DEF TERMINAL
  <2> QED BY <1>1, <1>4, <2>1, <2>2, GoesOn
<1>5. CASE Goto(j, [run[j] EXCEPT !.at = "poll", !.failures = 0, !.polled = "none"])
  <2> DEFINE new == [run[j] EXCEPT !.at = "poll", !.failures = 0, !.polled = "none"]
  <2>0. 0 \in 0..(MaxPollFailures - 1)
    OBVIOUS
  <2>1. new \in Thread /\ new.at = "poll"
    BY <2>0, Parts DEF Thread
  <2>2. Goto(j, new)
    BY <1>5
  <2> HIDE DEF new
  <2> QED BY <1>1, <2>1, <2>2, GoesOn
<1> QED BY <1>3, <1>4, <1>5 DEF ReadMetrics

LEMMA PollFailsKeeps ==
    ASSUME RemoteInv, NEW j \in Job, PollFails(j)
    PROVE  RemoteInv'
<1>1. Attended(j) /\ remote[j] # "none" /\ UNCHANGED Rest
  BY DEF PollFails, Polls, Attended, RemoteInv, FreshInv, Rest
<1>2. CASE Exit(j, "failed")
  <2>1. UNCHANGED <<copyVars, hereVars, there, jobVars, serverVars>> /\ body' = body
    BY <1>1 DEF Rest, dataVars
  <2>2. "failed" \in TERMINAL
    BY DEF TERMINAL
  <2> QED BY <1>1, <1>2, <2>1, <2>2, Ends
<1>3. CASE run[j].failures + 1 # MaxPollFailures
           /\ Goto(j, [run[j] EXCEPT !.at = "poll", !.failures = @ + 1, !.polled = "none"])
  <2> DEFINE new == [run[j] EXCEPT !.at = "poll", !.failures = @ + 1, !.polled = "none"]
  <2>1. run[j].failures + 1 \in 0..(MaxPollFailures - 1)
    BY <1>3, Parts
  <2>2. new \in Thread /\ new.at = "poll"
    BY <2>1, Parts DEF Thread
  <2>3. Goto(j, new)
    BY <1>3
  <2> HIDE DEF new
  <2> QED BY <1>1, <2>2, <2>3, GoesOn
<1> QED BY <1>2, <1>3 DEF PollFails

LEMMA FetchKeeps ==
    ASSUME RemoteInv, NEW j \in Job, Fetch(j)
    PROVE  RemoteInv'
<1>1. At(j) = "fetch" /\ Attended(j) /\ local[j] = "running"
  BY DEF Fetch, Attended, RemoteInv, LaneInv
<1>2. remote[j] = "done" /\ Len(mirror[j]) = written[j]
  BY <1>1 DEF RemoteInv, PolledInv
<1>3. CASE fetched[j] < Checkpoints /\ fetched' = [fetched EXCEPT ![j] = @ + 1] /\ UNCHANGED threadVars
  <2>1. /\ UNCHANGED <<local, run, asked, mirror, engine, here, body, there, remote, written, stopping, server,
                       crashes>>
        /\ \A k \in Job \ {j} : fetched'[k] = fetched[k]
        /\ fetched' \in [Job -> 0..Checkpoints]
    BY <1>3 DEF Fetch, threadVars, hereVars, dataVars, jobVars, serverVars, RemoteInv, TypeOK
  <2>2. TypeOK'
    BY <2>1 DEF RemoteInv, TypeOK
  <2>3. EndIsHonest'
    BY <1>1, <2>1 DEF RemoteInv, EndIsHonest
  <2> QED BY <2>1, <2>2, <2>3 DEF RemoteInv, LaneInv, FreshInv, PolledInv, UploadInv, LogIsCopied, At, Attended
<1>4. CASE fetched[j] = Checkpoints /\ Exit(j, "done") /\ UNCHANGED fetched
  <2>1. UNCHANGED <<copyVars, hereVars, there, jobVars, serverVars>> /\ body' = body
    BY <1>4 DEF Fetch, copyVars, dataVars
  <2>2. "done" \in TERMINAL
    BY DEF TERMINAL
  <2> QED BY <1>1, <1>2, <1>4, <2>1, <2>2, Ends
<1> QED BY <1>3, <1>4 DEF Fetch

-----------------------------------------------------------------------------
(* A training that runs on, or ends, is one that nothing was said of yet.  *)
LEMMA TrainingGoesOn ==
    ASSUME RemoteInv, NEW j \in Job, RunRemote(j) \/ EndRemote(j)
    PROVE  RemoteInv'
<1>1. /\ server = "up" /\ remote[j] \in Active /\ remote[j] \notin TERMINAL /\ remote[j] # "none"
      /\ UNCHANGED <<local, run, asked, mirror, fetched, engine, here, body, there, written, stopping, server,
                     crashes>>
  BY DEF RunRemote, EndRemote, threadVars, copyVars, hereVars, dataVars, serverVars, Active, TERMINAL
<1>2. /\ remote' \in [Job -> {"none"} \cup Active \cup TERMINAL]
      /\ remote'[j] # "none"
      /\ \A k \in Job \ {j} : remote'[k] = remote[k]
  BY ZenonT(60) DEF RunRemote, EndRemote, RemoteInv, TypeOK, Active, TERMINAL
<1>3. TypeOK'
  BY <1>1, <1>2 DEF RemoteInv, TypeOK
<1>4. FreshInv'
  BY <1>1, <1>2 DEF RemoteInv, FreshInv, At
<1>5. PolledInv'
  BY <1>1, <1>2 DEF RemoteInv, PolledInv, At, TERMINAL
<1>6. UploadInv'
  BY <1>1, <1>2 DEF RemoteInv, UploadInv, At
<1>7. EndIsHonest'
  BY <1>1, <1>2 DEF RemoteInv, EndIsHonest, TERMINAL
<1>8. LaneInv' /\ LogIsCopied'
  BY <1>1 DEF RemoteInv, LaneInv, LogIsCopied, At, Attended
<1> QED BY <1>3, <1>4, <1>5, <1>6, <1>7, <1>8 DEF RemoteInv

LEMMA PrintLineKeeps ==
    ASSUME RemoteInv, NEW j \in Job, PrintLine(j)
    PROVE  RemoteInv'
<1>1. /\ remote[j] = "running"
      /\ UNCHANGED <<local, run, asked, mirror, fetched, engine, here, body, there, remote, stopping, server,
                     crashes>>
  BY DEF PrintLine, threadVars, copyVars, hereVars, dataVars, serverVars
<1>2. /\ written' \in [Job -> Nat] /\ written'[j] = written[j] + 1 /\ written[j] \in Nat
      /\ \A k \in Job \ {j} : written'[k] = written[k]
  BY DEF PrintLine, RemoteInv, TypeOK
<1>3. TypeOK'
  BY <1>1, <1>2 DEF RemoteInv, TypeOK
<1>4. FreshInv'
  BY <1>1, <1>2 DEF RemoteInv, FreshInv, At
<1>5. PolledInv'
  BY <1>1, <1>2 DEF RemoteInv, PolledInv, At, TERMINAL
<1>6. EndIsHonest'
  BY <1>1, <1>2 DEF RemoteInv, EndIsHonest
<1>7. LogIsCopied'
  <2>1. \A k \in Job : mirror[k] \in Seq(Nat) /\ Len(mirror[k]) \in Nat
    BY DEF RemoteInv, TypeOK
  <2> QED BY <1>1, <1>2, <2>1 DEF RemoteInv, LogIsCopied
<1>8. LaneInv' /\ UploadInv'
  BY <1>1 DEF RemoteInv, LaneInv, UploadInv, At, Attended
<1> QED BY <1>3, <1>4, <1>5, <1>6, <1>7, <1>8 DEF RemoteInv

LEMMA ServerKeeps ==
    ASSUME RemoteInv, CrashServer \/ RecordThere \/ RecordHere
    PROVE  RemoteInv'
<1>1. UNCHANGED <<local, run, asked, mirror, fetched, engine, remote, written>>
  BY DEF CrashServer, RecordThere, RecordHere, threadVars, copyVars, hereVars, jobVars
<1>2. TypeOK'
  <2>1. CASE CrashServer
    BY <1>1, <2>1 DEF CrashServer, hereVars, RemoteInv, TypeOK, NoBody, Nothing
  <2>2. CASE RecordThere
    BY <1>1, <2>2 DEF RecordThere, hereVars, jobVars, serverVars, RemoteInv, TypeOK
  <2>3. CASE RecordHere
    BY <1>1, <2>3 DEF RecordHere, dataVars, jobVars, serverVars, RemoteInv, TypeOK
  <2> QED BY <2>1, <2>2, <2>3
<1>3. UploadInv'
  <2>1. CASE CrashServer
    BY <1>1, <2>1 DEF CrashServer, UploadInv, NoBody
  <2>2. CASE RecordThere
    BY <1>1, <2>2 DEF RecordThere, serverVars, RemoteInv, UploadInv, At
  <2>3. CASE RecordHere
    BY <1>1, <2>3 DEF RecordHere, dataVars, serverVars, RemoteInv, UploadInv, At
  <2> QED BY <2>1, <2>2, <2>3
<1>4. LaneInv' /\ FreshInv' /\ PolledInv'
  BY <1>1 DEF RemoteInv, LaneInv, FreshInv, PolledInv, At, Attended
<1>5. EndIsHonest' /\ LogIsCopied'
  BY <1>1 DEF RemoteInv, EndIsHonest, LogIsCopied
<1> QED BY <1>2, <1>3, <1>4, <1>5 DEF RemoteInv

-----------------------------------------------------------------------------
LEMMA InitHolds ==
    ASSUME Init
    PROVE  RemoteInv
<1>1. ThreadAt("idle") \in Thread /\ ThreadAt("idle").at = "idle"
  BY Labels
<1>2. \A j \in Job : At(j) = "idle" /\ run[j] \in Thread
  BY <1>1 DEF Init, At
<1>3. TypeOK
  BY <1>2 DEF Init, TypeOK, NoBody, Nothing
<1>4. LaneInv /\ FreshInv /\ PolledInv /\ UploadInv
  BY <1>2 DEF Init, LaneInv, FreshInv, PolledInv, UploadInv, Attended, NoBody, Nothing, Active
<1>5. EndIsHonest /\ LogIsCopied
  BY DEF Init, EndIsHonest, LogIsCopied
<1> QED BY <1>3, <1>4, <1>5 DEF RemoteInv

LEMMA NextKeeps ==
    ASSUME RemoteInv, [Next]_vars
    PROVE  RemoteInv'
<1>1. CASE UNCHANGED vars
  BY <1>1 DEF vars, threadVars, copyVars, hereVars, dataVars, jobVars, serverVars, RemoteInv, TypeOK, LaneInv,
              FreshInv, PolledInv, UploadInv, EndIsHonest, LogIsCopied, At, Attended
<1>2. ASSUME NEW j \in Job, Start(j) \/ Cancel(j) PROVE RemoteInv'
  BY <1>2, StartKeeps, CancelKeeps
<1>3. ASSUME NEW j \in Job, Drive(j) PROVE RemoteInv'
  BY <1>3, ConnectKeeps, EnsureDatasetKeeps, UploadKeeps, SubmitKeeps, CallFailsKeeps, UploadFailsKeeps DEF Drive
<1>4. ASSUME NEW j \in Job, Follow(j) PROVE RemoteInv'
  BY <1>4, SendCancelKeeps, ReadJobKeeps, ReadLogsKeeps, ReadMetricsKeeps, PollFailsKeeps, FetchKeeps DEF Follow
<1>5. ASSUME NEW j \in Job, ServerStep(j) PROVE RemoteInv'
  BY <1>5, TrainingGoesOn, PrintLineKeeps, ReceiveKeeps, SwapKeeps DEF ServerStep
<1> QED BY <1>1, <1>2, <1>3, <1>4, <1>5, EndEngineKeeps, ServerKeeps DEF Next

(* The lane has one thread, and what it knows of its training is true of   *)
(* it, whatever calls are lost on the way and whenever either engine ends  *)
(* (remote.py:194-305, routes/datasets.py:240-295).                        *)
THEOREM RemoteInvariance == Spec => []RemoteInv
BY InitHolds, NextKeeps, PTL DEF Spec

(* A job that is done here was done on the server, with its log and its    *)
(* checkpoints here; one that is cancelled here trains no more             *)
(* (remote.py:281-286).                                                    *)
THEOREM EndsAreHonest == Spec => []EndIsHonest
<1>1. RemoteInv => EndIsHonest
  BY DEF RemoteInv
<1> QED BY <1>1, RemoteInvariance, PTL

(* The local log is the beginning of the remote one, line by line          *)
(* (remote.py:262-264).                                                    *)
THEOREM LogsAreCopied == Spec => []LogIsCopied
<1>1. RemoteInv => LogIsCopied
  BY DEF RemoteInv
<1> QED BY <1>1, RemoteInvariance, PTL

(* An upload replaces the data under a training only if the engine that    *)
(* sent it waits for it no more (routes/datasets.py:265).                  *)
THEOREM DataOfTrainingsIsKept == Spec => TrainingKeepsItsData
<1> DEFINE Kept == there' # there /\ (\E j \in Job : remote[j] \in Active) =>
                     \E i \in Job : body[i].stage = "received" /\ At(i) # "sending"
<1>1. ASSUME RemoteInv, [Next]_vars PROVE [Kept]_vars
  <2>1. SUFFICES ASSUME there' # there, NEW k \in Job, remote[k] \in Active
                 PROVE  \E i \in Job : body[i].stage = "received" /\ At(i) # "sending"
    OBVIOUS
  <2>2. /\ \A i \in Job : body[i].stage = "received" => At(i) # "sending"
        /\ ~(there.owner = "nobody" /\ server = "up")
    BY <2>1, <1>1 DEF RemoteInv, UploadInv
  <2>3. UNCHANGED vars => there' = there
    BY DEF vars, dataVars
  <2>4. \A j \in Job : Start(j) \/ Cancel(j) \/ Drive(j) \/ Follow(j) => there' = there
    BY DEF Start, Cancel, Drive, Connect, EnsureDataset, Upload, Submit, CallFails, UploadFails,
           Follow, SendCancel, ReadJob, ReadLogs, ReadMetrics, PollFails, Fetch, dataVars
  <2>5. \A j \in Job : RunRemote(j) \/ PrintLine(j) \/ EndRemote(j) \/ Receive(j) => there' = there
    BY DEF RunRemote, PrintLine, EndRemote, Receive, dataVars
  <2>6. EndEngine \/ RecordHere => there' = there
    BY DEF EndEngine, RecordHere, dataVars
  <2>7. ~RecordThere
    BY <2>2 DEF RecordThere
  <2>8. PICK j \in Job : Swap(j) \/ CrashServer
    BY <1>1, <2>1, <2>3, <2>4, <2>5, <2>6, <2>7 DEF Next, ServerStep
  <2>9. CASE Swap(j)
    BY <2>2, <2>9 DEF Swap
  <2>10. CASE CrashServer
    BY <2>1, <2>2, <2>10 DEF CrashServer
  <2> QED BY <2>8, <2>9, <2>10
<1> HIDE DEF Kept
<1>2. Spec => [][Kept]_vars
  BY <1>1, RemoteInvariance, PTL DEF Spec
<1> QED BY <1>2 DEF TrainingKeepsItsData, Kept

-----------------------------------------------------------------------------
(* The server's jobs do what Jobs was shown to do.                         *)
LEMMA ServerStepIsAllowed ==
    ASSUME RemoteInv, [Next]_vars
    PROVE  There!Next \/ UNCHANGED remote
<1> USE DEF There!Active, There!Ended
<1>0. remote \in [Job -> {"none", "queued", "running", "done", "failed", "cancelled"}]
  BY DEF RemoteInv, TypeOK, Active, TERMINAL
<1>1. ASSUME NEW j \in Job, Connect(j) PROVE There!Interrupt \/ UNCHANGED remote
  <2>1. remote' = [k \in Job |-> IF server = "down" /\ remote[k] \in Active THEN "failed" ELSE remote[k]]
    BY <1>1 DEF Connect
  <2>2. CASE server = "down"
    BY <1>0, <2>1, <2>2 DEF There!Interrupt, Active
  <2>3. CASE server # "down"
    BY <1>0, <2>1, <2>3
  <2> QED BY <2>2, <2>3
<1>2. ASSUME NEW j \in Job, Submit(j) PROVE There!Submit(j)
  <2>1. At(j) = "submit" /\ remote' = [remote EXCEPT ![j] = "queued"]
    BY <1>2 DEF Submit
  <2>2. remote[j] = "none"
    BY <2>1 DEF RemoteInv, FreshInv
  <2> QED BY <2>1, <2>2 DEF There!Submit
<1>3. ASSUME NEW j \in Job, SendCancel(j) PROVE There!Cancel(j) \/ UNCHANGED remote
  BY <1>3 DEF SendCancel, CancelThere, There!Cancel
<1>4. ASSUME NEW j \in Job, RunRemote(j) PROVE There!Start(j)
  BY <1>4 DEF RunRemote, There!Start
<1>5. ASSUME NEW j \in Job, EndRemote(j) PROVE There!End(j)
  BY <1>5 DEF EndRemote, There!End
<1>6. ASSUME NEW j \in Job,
             \/ Start(j) \/ Cancel(j) \/ EnsureDataset(j) \/ Upload(j) \/ CallFails(j) \/ UploadFails(j)
             \/ ReadJob(j) \/ ReadLogs(j) \/ ReadMetrics(j) \/ PollFails(j) \/ Fetch(j)
             \/ PrintLine(j) \/ Receive(j) \/ Swap(j)
      PROVE  UNCHANGED remote
  BY <1>6 DEF Start, Cancel, EnsureDataset, Upload, CallFails, UploadFails, ReadJob, ReadLogs, ReadMetrics,
              PollFails, Fetch, PrintLine, Receive, Swap, jobVars
<1>7. CASE EndEngine \/ CrashServer \/ RecordThere \/ RecordHere \/ UNCHANGED vars
  BY <1>7 DEF EndEngine, CrashServer, RecordThere, RecordHere, vars, jobVars
<1> QED BY <1>1, <1>2, <1>3, <1>4, <1>5, <1>6, <1>7 DEF Next, Drive, Follow, ServerStep, There!Next

(* What the threads of the runner ask of the server, and what they read,   *)
(* is a ledger of jobs as the manager was shown to keep it, through every  *)
(* call that is lost and every engine that goes down (remote.py, jobs.py). *)
THEOREM ServerIsALedger == Spec => ServerKeepsTheLedger
<1>1. Init => There!Init
  BY DEF Init, There!Init
<1>2. RemoteInv /\ [Next]_vars => [There!Next]_remote
  BY ServerStepIsAllowed
<1> QED BY <1>1, <1>2, RemoteInvariance, PTL DEF Spec, ServerKeepsTheLedger, There!Spec
=============================================================================
