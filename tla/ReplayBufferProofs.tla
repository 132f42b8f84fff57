-------------------------- MODULE ReplayBufferProofs --------------------------
(***************************************************************************)
(* For any number of batches, prompts and sessions, whatever fails and     *)
(* however late the polling thread is: a sampled batch is whole, a         *)
(* training batch is its own, and only sessions of failed prompts are left *)
(* behind.  The invariant says what each of the three copies of the tags   *)
(* (transfer queue, answer on its way, buffer) shows of a prompt.          *)
(***************************************************************************)
EXTENDS ReplayBuffer, TLAPS

(* The trainer is done with the keys of this round. *)
Past(k) == k[1] < round \/ (k[1] = round /\ trainer \in {"remove", "done"})

(* What has not been dispatched does not run. *)
NotYet ==
  \A u \in Uids :
    u[1] > round \/ (u[1] = round /\ trainer \in {"mark", "dispatch"}) =>
      prompt[u] = "none" /\ \A s \in SessionsOf(u) : session[s] = "none"

(* A copy of the tags shows a session only when it is done, and a prompt as *)
(* it ended.                                                                *)
Shows(tags) ==
  /\ \A s \in Sessions : tags[s] \in {"none", "success"}
                         /\ (tags[s] = "success" => session[s] = "done")
  /\ \A u \in Uids : /\ tags[u] # "success"
                     /\ tags[u] = "finished" => prompt[u] = "finished"
                     /\ tags[u] = "failure" => prompt[u] = "failure"
Tags ==
  /\ Shows(tq) /\ Shows(snapshot) /\ Shows(partition)
  /\ \A s \in Sessions : session[s] = "done" /\ ~ Past(s) => tq[s] = "success"

(* A finished prompt has no session that still runs. *)
Gathering ==
  \A u \in Uids : prompt[u] = "finished" =>
    \A s \in SessionsOf(u) : session[s] \in {"done", "empty"}

(* A copy that shows a prompt of this or a later round finished shows every *)
(* trajectory of it.                                                        *)
Whole(tags) ==
  \A u \in Uids : tags[u] = "finished" /\ ~ Past(u) =>
    \A s \in SessionsOf(u) : session[s] = "done" => tags[s] = "success"

(* A prompt of this round is marked until it is known how it ended. *)
Resolved ==
  \A u \in Uids :
    /\ u[1] = round /\ trainer \in {"dispatch", "sample"} => partition[u] # "none"
    /\ u[1] < round \/ (u[1] = round /\ trainer \in {"use", "remove", "done"}) =>
         prompt[u] \in {"finished", "failure"}

(* The batch in the trainer's hands. *)
InUse ==
  /\ batch \subseteq SameStep(round)
  /\ \A k \in batch : session[k] = "done"

(* What is left in the transfer queue of an earlier round. *)
LeftOver ==
  \A u \in Uids : Past(u) /\ prompt[u] = "finished" =>
    \A s \in SessionsOf(u) : tq[s] # "success"

RInv ==
  /\ BufferTypeOK /\ NotYet /\ Tags /\ Gathering /\ Whole(snapshot) /\ Whole(partition)
  /\ Resolved /\ InUse /\ FinishedAreWhole /\ LeftOver

-----------------------------------------------------------------------------
(* Keys: a session belongs to one prompt, of its round.                     *)
LEMMA Keys ==
  /\ \A s \in Sessions : /\ UidOf(s) \in Uids /\ s \in SessionsOf(UidOf(s))
                         /\ UidOf(s)[1] = s[1]
  /\ \A u \in Uids : \A s \in SessionsOf(u) :
       s \in Sessions /\ s[1] = u[1] /\ UidOf(s) = u
  /\ Uids \subseteq Key /\ Sessions \subseteq Key /\ Uids \cap Sessions = {}
  /\ \A k \in Key : k \in Uids \/ k \in Sessions
  /\ \A k \in Key : k[1] \in Nat /\ k[1] \in Round
<1> USE ReplayBufferAssumption
<1>0. Round \subseteq Nat /\ 0 \in 0 .. N
  BY DEF Round
<1>1. \A k \in Key : /\ k = <<k[1], k[2], k[3]>> /\ k[1] \in Round
                      /\ k[2] \in 1 .. BatchSize /\ k[3] \in 0 .. N
  BY DEF Key
<1>2. \A r \in Round, i \in 1 .. BatchSize, n \in 0 .. N : <<r, i, n>> \in Key
  BY DEF Key
<1>3. \A s \in Sessions : UidOf(s) \in Uids /\ UidOf(s)[1] = s[1] /\ UidOf(s)[2] = s[2]
  <2> TAKE s \in Sessions
  <2>1. UidOf(s) \in Key
    BY <1>0, <1>1, <1>2 DEF UidOf, Sessions
  <2> QED BY <2>1 DEF UidOf, Uids, IsUid
<1>4. \A s \in Sessions : s \in SessionsOf(UidOf(s))
  BY <1>3 DEF SessionsOf
<1>5. \A u \in Uids : u = <<u[1], u[2], 0>>
  BY <1>1 DEF Uids, IsUid
<1>6. \A u \in Uids : \A s \in SessionsOf(u) : s \in Sessions /\ s[1] = u[1] /\ UidOf(s) = u
  BY <1>5 DEF SessionsOf, UidOf
<1> QED BY <1>0, <1>1, <1>3, <1>4, <1>6 DEF Uids, Sessions

(* Batches of the training are the only ones of their step. *)
LEMMA StepOfTraining ==
  ASSUME NEW r \in Round, Rounds[r].partition = "train"
  PROVE  SameStep(r) = OfRound(r)
<1>1. \A k \in Key : k[1] \in Round
  BY Keys
<1>2. \A q \in Round : Rounds[q] = Rounds[r] => q = r
  BY ReplayBufferAssumption DEF Round
<1> QED BY <1>1, <1>2 DEF SameStep, OfRound

LEMMA OwnStep == \A r \in Round : OfRound(r) \subseteq SameStep(r)
BY DEF OfRound, SameStep

LEMMA RoundType == /\ Round \subseteq Nat /\ 1 \in Round
                   /\ \A r \in Round : r < Len(Rounds) => r + 1 \in Round
BY ReplayBufferAssumption DEF Round

LEMMA InitBuffer == Init => RInv
<1> SUFFICES ASSUME Init PROVE RInv
  OBVIOUS
<1> USE DEF Init
<1>1. BufferTypeOK
  <2>1. 1 \in Round /\ 0 \in 0 .. MaxFailures
    BY RoundType, ReplayBufferAssumption
  <2> QED BY <2>1 DEF BufferTypeOK, Nothing
<1>2. \A k \in Key : Nothing[k] = "none"
  BY DEF Nothing
<1>3. \A u \in Uids : u \in Key /\ u[1] >= 1 /\ SessionsOf(u) \subseteq Sessions
  <2> TAKE u \in Uids
  <2>1. u \in Key /\ u[1] \in Round /\ SessionsOf(u) \subseteq Sessions
    BY Keys
  <2> QED BY <2>1, ReplayBufferAssumption DEF Round
<1>4. Shows(tq) /\ Shows(snapshot) /\ Shows(partition)
  BY <1>2, Keys DEF Shows
<1>5. NotYet /\ Gathering
  BY <1>3 DEF NotYet, Gathering
<1>6. Tags
  BY <1>4 DEF Tags
<1>7. Whole(snapshot) /\ Whole(partition) /\ LeftOver
  BY <1>2, <1>3 DEF Whole, LeftOver
<1>8. Resolved
  BY <1>3, Keys DEF Resolved
<1> QED BY <1>1, <1>4, <1>5, <1>6, <1>7, <1>8 DEF RInv, InUse, FinishedAreWhole

-----------------------------------------------------------------------------
(* Only of the batch's own step, and what runs has been dispatched.         *)
LEMMA Dispatched ==
  ASSUME RInv, NEW s \in Sessions, session[s] # "none"
  PROVE  s[1] <= round
<1>1. UidOf(s) \in Uids /\ s \in SessionsOf(UidOf(s)) /\ UidOf(s)[1] = s[1] /\ s[1] \in Nat
  BY Keys
<1>2. round \in Nat
  BY RoundType DEF RInv, BufferTypeOK
<1> QED BY <1>1, <1>2 DEF RInv, NotYet

(* The steps of the sessions: only one that puts changes a tag, from none,   *)
(* of a prompt that has not been gathered.                                   *)
LEMMA SessionKeeps ==
  ASSUME RInv, NEW s \in Sessions, SessionStep(s)
  PROVE  RInv'
<1>1. /\ session[s] = "running" /\ UNCHANGED <<polling, snapshot, partition, prompt,
           round, trainer, batch>>
      /\ \/ session' = [session EXCEPT ![s] = "done"] /\ failures' = failures
            /\ tq' = [tq EXCEPT ![s] = "success"]
         \/ session' = [session EXCEPT ![s] = "empty"] /\ tq' = tq /\ failures' = failures
         \/ session' = [session EXCEPT ![s] = "failed"] /\ tq' = tq
            /\ failures' = failures + 1 /\ failures < MaxFailures
  BY DEF SessionStep, SessionPuts, SessionEmpty, SessionRaises, poll, driver
<1>2. /\ UidOf(s) \in Uids /\ s \in SessionsOf(UidOf(s)) /\ s \in Key
      /\ s \notin Uids
  BY Keys
<1>3. BufferTypeOK'
  <2>1. failures' \in 0 .. MaxFailures
    BY <1>1, ReplayBufferAssumption DEF RInv, BufferTypeOK
  <2>2. session' \in [Sessions -> {"none", "running", "done", "empty", "failed"}]
    BY <1>1 DEF RInv, BufferTypeOK
  <2>3. tq' \in [Key -> {"none", "success", "finished", "failure"}]
    BY <1>1 DEF RInv, BufferTypeOK
  <2> QED BY <1>1, <2>1, <2>2, <2>3 DEF RInv, BufferTypeOK
<1>4. \A k \in Sessions \ {s} : session'[k] = session[k] /\ tq'[k] = tq[k]
  BY <1>1, Keys DEF RInv, BufferTypeOK
<1>5. \A u \in Uids : tq'[u] = tq[u]
  BY <1>1, <1>2, Keys DEF RInv, BufferTypeOK
<1>6. /\ session'[s] \in {"done", "empty", "failed"}
      /\ session'[s] = "done" => tq'[s] = "success"
      /\ session'[s] # "done" => tq'[s] = tq[s]
  BY <1>1, <1>2 DEF RInv, BufferTypeOK
<1>7. /\ prompt[UidOf(s)] # "finished"
      /\ tq[s] # "success" /\ snapshot[s] # "success" /\ partition[s] # "success"
  <2>1. prompt[UidOf(s)] # "finished"
    BY <1>1, <1>2 DEF RInv, Gathering
  <2>2. tq[s] # "success" /\ snapshot[s] # "success" /\ partition[s] # "success"
    BY <1>1 DEF RInv, Tags, Shows
  <2> QED BY <2>1, <2>2
<1>8. NotYet'
  <2>1. ASSUME NEW u \in Uids,
               u[1] > round \/ (u[1] = round /\ trainer \in {"mark", "dispatch"})
        PROVE  prompt[u] = "none" /\ \A x \in SessionsOf(u) : session'[x] = "none"
    <3>1. prompt[u] = "none" /\ \A x \in SessionsOf(u) : session[x] = "none"
      BY <2>1 DEF RInv, NotYet
    <3> QED BY <1>1, <1>4, <3>1, Keys
  <2> QED BY <1>1, <2>1 DEF NotYet
<1>9. Shows(tq)' /\ Shows(snapshot)' /\ Shows(partition)'
  <2>1. Shows(tq)'
    BY <1>1, <1>4, <1>5, <1>6, <1>7 DEF RInv, Tags, Shows
  <2>2. Shows(snapshot)' /\ Shows(partition)'
    BY <1>1, <1>4, <1>7 DEF RInv, Tags, Shows
  <2> QED BY <2>1, <2>2
<1>10. Tags'
  <2>1. \A k \in Sessions : session'[k] = "done" /\ ~ Past(k)' => tq'[k] = "success"
    BY <1>1, <1>4, <1>6 DEF RInv, Tags, Past
  <2> QED BY <1>9, <2>1 DEF Tags
<1>11. \A u \in Uids : prompt[u] = "finished" =>
         \A x \in SessionsOf(u) : x \in Sessions \ {s}
  BY <1>7, Keys
<1>12. Gathering'
  BY <1>1, <1>4, <1>11 DEF RInv, Gathering
<1>13. Whole(snapshot)' /\ Whole(partition)'
  <2>1. \A u \in Uids : snapshot[u] = "finished" \/ partition[u] = "finished"
          => prompt[u] = "finished"
    BY DEF RInv, Tags, Shows
  <2> QED BY <1>1, <1>4, <1>11, <2>1 DEF RInv, Whole, Past
<1>14. Resolved'
  BY <1>1 DEF RInv, Resolved
<1>15. InUse'
  <2>1. batch \subseteq Sessions
    BY DEF RInv, BufferTypeOK
  <2> QED BY <1>1, <1>4, <2>1 DEF RInv, InUse
<1>16. FinishedAreWhole'
  BY <1>1, <1>4, <1>11 DEF RInv, FinishedAreWhole
<1>17. LeftOver'
  BY <1>1, <1>4, <1>11 DEF RInv, LeftOver, Past
<1> QED BY <1>3, <1>8, <1>10, <1>12, <1>13, <1>14, <1>15, <1>16, <1>17 DEF RInv

(* A prompt ends: its mark says how. *)
LEMMA PromptKeeps ==
  ASSUME RInv, NEW u \in Uids, PromptStep(u)
  PROVE  RInv'
<1>1. /\ prompt[u] = "running"
      /\ UNCHANGED <<polling, snapshot, partition, session, failures, round, trainer, batch>>
  BY DEF PromptStep, PromptFinishes, PromptFails, poll, driver
<1>2. PICK v \in {"finished", "failure"} :
        /\ prompt' = [prompt EXCEPT ![u] = v] /\ tq' = [tq EXCEPT ![u] = v]
        /\ v = "finished" => Gathered(u)
  BY DEF PromptStep, PromptFinishes, PromptFails, FailureTag
<1>3. u \in Key /\ u \notin Sessions
  BY Keys
<1>4. BufferTypeOK'
  BY <1>1, <1>2, <1>3 DEF RInv, BufferTypeOK
<1>5. /\ prompt'[u] = v /\ tq'[u] = v
      /\ \A x \in Uids \ {u} : prompt'[x] = prompt[x] /\ tq'[x] = tq[x]
      /\ \A s \in Sessions : tq'[s] = tq[s]
  BY <1>2, <1>3, Keys DEF RInv, BufferTypeOK
<1>6. /\ snapshot[u] \notin {"finished", "failure"}
      /\ partition[u] \notin {"finished", "failure"}
  BY <1>1 DEF RInv, Tags, Shows
<1>7. NotYet'
  BY <1>1, <1>5 DEF RInv, NotYet
<1>8. Tags'
  <2>1. Shows(tq)'
    BY <1>1, <1>5 DEF RInv, Tags, Shows
  <2>2. Shows(snapshot)' /\ Shows(partition)'
    BY <1>1, <1>5, <1>6 DEF RInv, Tags, Shows
  <2> QED BY <1>1, <1>5, <2>1, <2>2 DEF RInv, Tags, Past
<1>9. Gathering'
  BY <1>1, <1>2, <1>5 DEF RInv, Gathering, Gathered
<1>10. Whole(snapshot)' /\ Whole(partition)'
  BY <1>1 DEF RInv, Whole, Past
<1>11. Resolved'
  BY <1>1, <1>5 DEF RInv, Resolved
<1>12. ~ Past(u) /\ ~ (trainer = "use" /\ u \in OfRound(round))
  BY <1>1 DEF RInv, Resolved, Past, OfRound
<1>13. FinishedAreWhole'
  BY <1>1, <1>5, <1>12 DEF RInv, FinishedAreWhole
<1>14. LeftOver'
  <2>1. \A x \in Uids : \A s \in SessionsOf(x) : tq'[s] = tq[s]
    BY <1>5, Keys
  <2> QED BY <1>1, <1>5, <1>12, <2>1 DEF RInv, LeftOver, Past
<1>15. InUse'
  BY <1>1 DEF RInv, InUse
<1> QED BY <1>4, <1>7, <1>8, <1>9, <1>10, <1>11, <1>13, <1>14, <1>15 DEF RInv

(* The queue's answer shows the trajectories put before the mark. *)
LEMMA PollTakesKeeps ==
  ASSUME RInv, PollTakes
  PROVE  RInv'
<1>1. /\ snapshot' = tq /\ polling' = TRUE
      /\ UNCHANGED <<tq, partition, session, prompt, failures, round, trainer, batch>>
  BY DEF PollTakes, workers, driver
<1>2. BufferTypeOK'
  BY <1>1 DEF RInv, BufferTypeOK
<1>3. NotYet' /\ Gathering' /\ Whole(partition)' /\ Resolved' /\ InUse'
      /\ FinishedAreWhole' /\ LeftOver'
  BY <1>1 DEF RInv, NotYet, Gathering, Whole, Past, Resolved, InUse, FinishedAreWhole,
     LeftOver
<1>4. Tags'
  BY <1>1 DEF RInv, Tags, Shows, Past
<1>5. Whole(snapshot)'
  <2>1. \A u \in Uids : ~ Past(u) => \A s \in SessionsOf(u) : s \in Sessions /\ ~ Past(s)
    BY Keys DEF Past
  <2> QED BY <1>1, <2>1 DEF RInv, Whole, Tags, Past
<1> QED BY <1>2, <1>3, <1>4, <1>5 DEF RInv

LEMMA PollAddsKeeps ==
  ASSUME RInv, PollAdds
  PROVE  RInv'
<1>1. /\ partition' = Merged /\ polling' = FALSE /\ snapshot' = Nothing
      /\ UNCHANGED <<tq, session, prompt, failures, round, trainer, batch>>
  BY DEF PollAdds, workers, driver
<1>2. \A k \in Key : /\ partition'[k] = IF snapshot[k] = "none" THEN partition[k] ELSE snapshot[k]
                     /\ snapshot'[k] = "none"
  BY <1>1 DEF Merged, Nothing
<1>3. BufferTypeOK'
  BY <1>1 DEF RInv, BufferTypeOK, Merged, Nothing
<1>4. NotYet' /\ Gathering' /\ InUse' /\ FinishedAreWhole' /\ LeftOver'
  BY <1>1 DEF RInv, NotYet, Gathering, Past, InUse, FinishedAreWhole, LeftOver
<1>5. Tags'
  <2>1. Shows(partition)'
    BY <1>1, <1>2, Keys DEF RInv, Tags, Shows
  <2>2. Shows(snapshot)'
    BY <1>1, <1>2, Keys DEF Shows
  <2> QED BY <1>1, <2>1, <2>2 DEF RInv, Tags, Shows, Past
<1>6. Whole(snapshot)'
  BY <1>2, Keys DEF Whole
<1>7. Whole(partition)'
  <2> SUFFICES ASSUME NEW u \in Uids, partition'[u] = "finished", ~ Past(u),
                      NEW s \in SessionsOf(u), session[s] = "done"
               PROVE  partition'[s] = "success"
    BY <1>1 DEF Whole, Past
  <2>1. u \in Key /\ s \in Sessions /\ s \in Key
    BY Keys
  <2>2. snapshot[s] = "success" \/ (snapshot[s] = "none" /\ partition[s] = "success")
    BY <1>2, <2>1 DEF RInv, Whole, Tags, Shows
  <2> QED BY <1>2, <2>1, <2>2
<1>8. Resolved'
  BY <1>1, <1>2, Keys DEF RInv, Resolved
<1> QED BY <1>3, <1>4, <1>5, <1>6, <1>7, <1>8 DEF RInv

-----------------------------------------------------------------------------
LEMMA MarkKeeps ==
  ASSUME RInv, MarkRunning
  PROVE  RInv'
<1> DEFINE marked == OfRound(round) \cap Uids
<1>1. /\ trainer = "mark" /\ trainer' = "dispatch"
      /\ partition' = Set(partition, marked, "running")
      /\ UNCHANGED <<tq, polling, snapshot, session, prompt, failures, round, batch>>
  BY DEF MarkRunning, poll, workers
<1>2. /\ partition' \in [Key -> {"none", "running", "success", "finished", "failure"}]
      /\ \A k \in Key : partition'[k] = IF k \in marked THEN "running" ELSE partition[k]
  <2> HIDE DEF marked
  <2> QED BY <1>1 DEF Set, RInv, BufferTypeOK
<1>3. BufferTypeOK'
  BY <1>1, <1>2 DEF RInv, BufferTypeOK
<1>4. NotYet' /\ Gathering' /\ Whole(snapshot)' /\ InUse' /\ FinishedAreWhole' /\ LeftOver'
  BY <1>1 DEF RInv, NotYet, Gathering, Whole, Past, InUse, FinishedAreWhole, LeftOver
<1>5. Tags'
  <2>1. \A s \in Sessions : s \in Key /\ partition'[s] = partition[s]
    BY <1>2, Keys
  <2>2. \A u \in Uids : u \in Key /\ partition'[u] \in {"running", partition[u]}
    BY <1>2, Keys
  <2>3. Shows(partition)'
    BY <1>1, <2>1, <2>2 DEF RInv, Tags, Shows
  <2> QED BY <1>1, <2>3 DEF RInv, Tags, Shows, Past
<1>6. Whole(partition)'
  <2>1. \A u \in Uids : u \in Key /\ partition'[u] \in {"running", partition[u]}
    BY <1>2, Keys
  <2>2. \A u \in Uids : \A s \in SessionsOf(u) : partition'[s] = partition[s]
    BY <1>2, Keys
  <2> QED BY <1>1, <2>1, <2>2 DEF RInv, Whole, Past
<1>7. Resolved'
  <2>1. \A u \in Uids : u[1] = round => partition'[u] = "running"
    BY <1>2, Keys DEF OfRound
  <2> QED BY <1>1, <2>1 DEF RInv, Resolved
<1> QED BY <1>3, <1>4, <1>5, <1>6, <1>7 DEF RInv

LEMMA DispatchKeeps ==
  ASSUME RInv, Dispatch
  PROVE  RInv'
<1>1. /\ trainer = "dispatch" /\ trainer' = "sample"
      /\ session' = Set(session, OfRound(round), "running")
      /\ prompt' = Set(prompt, OfRound(round), "running")
      /\ UNCHANGED <<tq, polling, snapshot, partition, failures, round, batch>>
  BY DEF Dispatch, poll
<1>2. /\ session' \in [Sessions -> {"none", "running", "done", "empty", "failed"}]
      /\ \A s \in Sessions : session'[s] = IF s \in OfRound(round) THEN "running"
                                                                   ELSE session[s]
  BY <1>1 DEF Set, RInv, BufferTypeOK
<1>3. /\ prompt' \in [Uids -> {"none", "running", "finished", "failure"}]
      /\ \A u \in Uids : prompt'[u] = IF u \in OfRound(round) THEN "running" ELSE prompt[u]
  BY <1>1 DEF Set, RInv, BufferTypeOK
<1>4. BufferTypeOK'
  BY <1>1, <1>2, <1>3 DEF RInv, BufferTypeOK
<1>5. \A u \in Uids :
        /\ u \in OfRound(round) <=> u[1] = round
        /\ \A s \in SessionsOf(u) : s \in Sessions /\ (s \in OfRound(round) <=> u[1] = round)
  BY Keys DEF OfRound
<1>6. \A u \in Uids : u[1] = round =>
        prompt[u] = "none" /\ \A s \in SessionsOf(u) : session[s] = "none"
  BY <1>1 DEF RInv, NotYet
<1>7. \A s \in Sessions : s \in OfRound(round) => session[s] = "none"
  BY <1>6, Keys DEF OfRound
<1>8. round \in Nat
  BY RoundType DEF RInv, BufferTypeOK
<1>9. NotYet'
  <2> SUFFICES ASSUME NEW u \in Uids, u[1] > round
               PROVE  prompt'[u] = "none" /\ \A s \in SessionsOf(u) : session'[s] = "none"
    BY <1>1 DEF NotYet
  <2>1. u[1] # round
    BY <1>8, Keys
  <2> QED BY <1>2, <1>3, <1>5, <2>1 DEF RInv, NotYet
<1>10. \A s \in Sessions : session'[s] = "done" <=> session[s] = "done"
  BY <1>2, <1>7
<1>11. \A u \in Uids : prompt[u] \in {"finished", "failure"} => prompt'[u] = prompt[u]
  BY <1>3, <1>5, <1>6
<1>12. \A u \in Uids : prompt'[u] = "finished" => prompt[u] = "finished" /\ u[1] # round
  BY <1>3, <1>5
<1>13. Tags'
  <2>1. Shows(tq)' /\ Shows(snapshot)' /\ Shows(partition)'
    BY <1>1, <1>10, <1>11 DEF RInv, Tags, Shows
  <2> QED BY <1>1, <1>10, <2>1 DEF RInv, Tags, Past
<1>14. Gathering'
  BY <1>2, <1>5, <1>12 DEF RInv, Gathering
<1>15. \A u \in Uids : \A s \in SessionsOf(u) : session'[s] = "done" <=> session[s] = "done"
  BY <1>10, Keys
<1>16. Whole(snapshot)' /\ Whole(partition)' /\ LeftOver'
  BY <1>1, <1>12, <1>15 DEF RInv, Whole, Past, LeftOver
<1>17. Resolved'
  <2>1. \A u \in Uids : u[1] < round => prompt'[u] \in {"finished", "failure"}
    BY <1>11 DEF RInv, Resolved
  <2> QED BY <1>1, <2>1 DEF RInv, Resolved
<1>18. InUse'
  <2>1. batch \subseteq Sessions
    BY DEF RInv, BufferTypeOK
  <2> QED BY <1>1, <1>10, <2>1 DEF RInv, InUse
<1>19. FinishedAreWhole'
  BY <1>1 DEF FinishedAreWhole
<1> QED BY <1>4, <1>9, <1>13, <1>14, <1>16, <1>17, <1>18, <1>19 DEF RInv

(* Nothing of the step is marked running: every prompt has ended, and the   *)
(* marks of those that finished came with their trajectories.               *)
LEMMA SampleKeeps ==
  ASSUME RInv, Sample
  PROVE  RInv'
<1>1. /\ trainer = "sample" /\ trainer' = "use" /\ batch' = Sampled
      /\ \A k \in SameStep(round) : partition[k] # "running"
      /\ UNCHANGED <<tq, polling, snapshot, partition, session, prompt, failures, round>>
  BY DEF Sample, poll, workers
<1>2. SameStep(round) \subseteq Key /\ OfRound(round) \subseteq SameStep(round)
      /\ \A u \in Uids : u[1] = round => u \in OfRound(round)
  BY Keys, OwnStep DEF SameStep, RInv, BufferTypeOK, OfRound
<1>3. Sampled \subseteq Sessions
  BY <1>2, Keys DEF Sampled, RInv, Tags, Shows
<1>4. BufferTypeOK'
  BY <1>1, <1>3 DEF RInv, BufferTypeOK
<1>5. \A u \in Uids : u[1] = round => prompt[u] \in {"finished", "failure"}
  <2> SUFFICES ASSUME NEW u \in Uids, u[1] = round
               PROVE  prompt[u] \in {"finished", "failure"}
    OBVIOUS
  <2>1. partition[u] \notin {"none", "running"}
    BY <1>1, <1>2 DEF RInv, Resolved
  <2>2. partition[u] \in {"none", "running", "success", "finished", "failure"}
    BY Keys DEF RInv, BufferTypeOK
  <2> QED BY <2>1, <2>2 DEF RInv, Tags, Shows
<1>6. Resolved'
  BY <1>1, <1>5 DEF RInv, Resolved
<1>7. NotYet' /\ Tags' /\ Gathering' /\ Whole(snapshot)' /\ Whole(partition)' /\ LeftOver'
  BY <1>1 DEF RInv, NotYet, Tags, Shows, Gathering, Whole, Past, LeftOver
<1>8. InUse'
  BY <1>1, <1>3, <1>2 DEF RInv, Tags, Shows, InUse, Sampled, SameStep
<1>9. FinishedAreWhole'
  <2> SUFFICES ASSUME NEW u \in Uids, u \in OfRound(round), prompt[u] = "finished",
                      NEW s \in SessionsOf(u), session[s] = "done"
               PROVE  s \in Sampled
    BY <1>1 DEF FinishedAreWhole, OfRound
  <2>1. u[1] = round /\ u \in Key /\ s \in Sessions /\ s[1] = round
        /\ s \in OfRound(round)
    BY Keys DEF OfRound
  <2>2. partition[u] \notin {"none", "running"}
    BY <1>1, <1>2, <2>1 DEF RInv, Resolved
  <2>3. partition[u] = "finished"
    <3>1. partition[u] \in {"none", "running", "success", "finished", "failure"}
      BY <2>1 DEF RInv, BufferTypeOK
    <3> QED BY <2>2, <3>1 DEF RInv, Tags, Shows
  <2>4. ~ Past(u)
    BY <1>1, <2>1, RoundType DEF Past, RInv, BufferTypeOK
  <2>5. partition[s] = "success"
    BY <2>3, <2>4 DEF RInv, Whole
  <2> QED BY <1>2, <2>1, <2>5 DEF Sampled
<1> QED BY <1>4, <1>6, <1>7, <1>8, <1>9 DEF RInv

(* The cleanup of the queue takes every trajectory of the finished prompts. *)
LEMMA ClearQueueKeeps ==
  ASSUME RInv, ClearQueue
  PROVE  RInv'
<1>1. /\ trainer = "use" /\ trainer' = "remove" /\ tq' = Set(tq, batch, "none")
      /\ UNCHANGED <<polling, snapshot, partition, session, prompt, failures, round, batch>>
  BY DEF ClearQueue, poll, workers
<1>2. /\ tq' \in [Key -> {"none", "success", "finished", "failure"}]
      /\ \A k \in Key : tq'[k] = IF k \in batch THEN "none" ELSE tq[k]
  BY <1>1 DEF Set, RInv, BufferTypeOK
<1>3. BufferTypeOK'
  BY <1>1, <1>2 DEF RInv, BufferTypeOK
<1>4. round \in Nat /\ \A k \in Key : k[1] \in Nat
  BY RoundType, Keys DEF RInv, BufferTypeOK
<1>5. \A k \in Key : /\ Past(k) => Past(k)'
                     /\ Past(k)' <=> k[1] <= round
  BY <1>1, <1>4 DEF Past
<1>6. NotYet' /\ Gathering' /\ Resolved' /\ InUse' /\ FinishedAreWhole'
  BY <1>1 DEF RInv, NotYet, Gathering, Resolved, InUse, FinishedAreWhole
<1>7. Whole(snapshot)' /\ Whole(partition)'
  BY <1>1, <1>5, Keys DEF RInv, Whole
<1>8. Tags'
  <2>1. Shows(tq)'
    BY <1>1, <1>2, Keys DEF RInv, Tags, Shows
  <2>2. \A s \in Sessions : session[s] = "done" => Past(s)'
    BY <1>5, Dispatched, Keys
  <2> QED BY <1>1, <2>1, <2>2 DEF RInv, Tags, Shows
<1>9. LeftOver'
  <2> SUFFICES ASSUME NEW u \in Uids, Past(u)', prompt[u] = "finished",
                      NEW s \in SessionsOf(u)
               PROVE  tq'[s] # "success"
    BY <1>1 DEF LeftOver
  <2>1. u \in Key /\ s \in Sessions /\ s \in Key /\ s[1] = u[1]
    BY Keys
  <2>2. CASE Past(u)
    BY <1>2, <2>1, <2>2 DEF RInv, LeftOver
  <2>3. CASE u[1] = round
    <3>1. session[s] = "done" => s \in batch
      BY <1>1, <2>1, <2>3 DEF RInv, FinishedAreWhole, OfRound
    <3>2. session[s] # "done" => tq[s] # "success"
      BY <2>1 DEF RInv, Tags, Shows
    <3> QED BY <1>2, <2>1, <3>1, <3>2
  <2> QED BY <1>1, <1>4, <2>2, <2>3 DEF Past
<1> QED BY <1>3, <1>6, <1>7, <1>8, <1>9 DEF RInv

(* The buffer's cleanup, and the next round, of which nothing runs yet.     *)
LEMMA RemoveKeysKeeps ==
  ASSUME RInv, RemoveKeys
  PROVE  RInv'
<1>1. /\ trainer = "remove" /\ partition' = Set(partition, batch, "none") /\ batch' = {}
      /\ UNCHANGED <<tq, polling, snapshot, session, prompt, failures>>
      /\ \/ round < Len(Rounds) /\ round' = round + 1 /\ trainer' = "mark"
         \/ trainer' = "done" /\ round' = round
  BY DEF RemoveKeys, poll, workers
<1>2. /\ partition' \in [Key -> {"none", "running", "success", "finished", "failure"}]
      /\ \A k \in Key : partition'[k] = IF k \in batch THEN "none" ELSE partition[k]
  BY <1>1 DEF Set, RInv, BufferTypeOK
<1>3. /\ round \in Nat /\ round' \in Nat /\ round' \in Round
      /\ \A k \in Key : k[1] \in Nat
  BY <1>1, RoundType, Keys DEF RInv, BufferTypeOK
<1>4. BufferTypeOK'
  BY <1>1, <1>2, <1>3 DEF RInv, BufferTypeOK
<1>5. \A k \in Key : Past(k)' <=> Past(k)
  BY <1>1, <1>3 DEF Past
<1>6. \A u \in Uids : u \in Key /\ \A s \in SessionsOf(u) : s \in Sessions /\ s \in Key
  BY Keys
<1>7. NotYet'
  <2> SUFFICES ASSUME NEW u \in Uids,
                      u[1] > round' \/ (u[1] = round' /\ trainer' \in {"mark", "dispatch"})
               PROVE  prompt[u] = "none" /\ \A s \in SessionsOf(u) : session[s] = "none"
    BY <1>1 DEF NotYet
  <2>1. u[1] > round
    BY <1>1, <1>3, <1>6
  <2> QED BY <2>1 DEF RInv, NotYet
<1>8. Gathering' /\ Whole(snapshot)' /\ LeftOver'
  BY <1>1, <1>5, <1>6 DEF RInv, Gathering, Whole, LeftOver
<1>9. Tags'
  <2>1. Shows(partition)'
    BY <1>1, <1>2, Keys DEF RInv, Tags, Shows
  <2>2. \A s \in Sessions : session[s] = "done" /\ ~ Past(s)' => tq[s] = "success"
    BY <1>5, Keys DEF RInv, Tags
  <2> QED BY <1>1, <2>1, <2>2 DEF RInv, Tags, Shows
<1>10. Whole(partition)'
  <2> SUFFICES ASSUME NEW u \in Uids, partition'[u] = "finished", ~ Past(u),
                      NEW s \in SessionsOf(u), session[s] = "done"
               PROVE  FALSE
    BY <1>1, <1>5, <1>6 DEF Whole
  <2>1. u[1] > round
    BY <1>1, <1>3, <1>6 DEF Past
  <2>2. session[s] = "none"
    BY <2>1 DEF RInv, NotYet
  <2> QED BY <2>2
<1>11. Resolved'
  <2> SUFFICES ASSUME NEW u \in Uids
               PROVE  /\ u[1] = round' /\ trainer' \in {"dispatch", "sample"}
                           => partition'[u] # "none"
                      /\ u[1] < round' \/ (u[1] = round' /\ trainer' \in {"use", "remove", "done"})
                           => prompt[u] \in {"finished", "failure"}
    BY <1>1 DEF Resolved
  <2>1. u[1] <= round => prompt[u] \in {"finished", "failure"}
    BY <1>1, <1>3, <1>6 DEF RInv, Resolved
  <2> QED BY <1>1, <1>3, <1>6, <2>1
<1>12. InUse' /\ FinishedAreWhole'
  BY <1>1 DEF InUse, FinishedAreWhole
<1> QED BY <1>4, <1>7, <1>8, <1>9, <1>10, <1>11, <1>12 DEF RInv

-----------------------------------------------------------------------------
THEOREM BufferKept == Spec => []RInv
<1>1. ASSUME RInv, [Next]_vars
      PROVE  RInv'
  <2>1. CASE \E s \in Sessions : SessionStep(s)
    BY <1>1, <2>1, SessionKeeps
  <2>2. CASE \E u \in Uids : PromptStep(u)
    BY <1>1, <2>2, PromptKeeps
  <2>3. CASE Poll
    BY <1>1, <2>3, PollTakesKeeps, PollAddsKeeps DEF Poll
  <2>4. CASE Driver
    BY <1>1, <2>4, MarkKeeps, DispatchKeeps, SampleKeeps, ClearQueueKeeps, RemoveKeysKeeps
       DEF Driver
  <2>5. CASE UNCHANGED vars
    BY <1>1, <2>5 DEF vars, poll, workers, driver, RInv, BufferTypeOK, NotYet, Tags, Shows,
       Gathering, Whole, Past, Resolved, InUse, FinishedAreWhole, LeftOver
  <2> QED BY <1>1, <2>1, <2>2, <2>3, <2>4, <2>5 DEF Next
<1> QED BY <1>1, InitBuffer, PTL DEF Spec

(* The types of the three copies of the tags, and of what sample returns:   *)
(* keys of trajectories only.                                               *)
THEOREM BufferTypeCorrect == Spec => []BufferTypeOK
<1>1. RInv => BufferTypeOK
  BY DEF RInv
<1> QED BY <1>1, BufferKept, PTL

(* FinishedAreWhole for every run of batches: however late and however      *)
(* often the thread polls, sample does not return a part of a prompt.       *)
THEOREM BatchesWhole == Spec => []FinishedAreWhole
<1>1. RInv => FinishedAreWhole
  BY DEF RInv
<1> QED BY <1>1, BufferKept, PTL

(* TrainsOnItsOwn for every run of batches in which the training steps are  *)
(* numbered apart: stale answers of the queue do not reach the training.    *)
THEOREM OwnBatches == Spec => []TrainsOnItsOwn
<1>1. ASSUME RInv, trainer = "use", Rounds[round].partition = "train"
      PROVE  batch \subseteq OfRound(round) /\ \A k \in batch : tq[k] = "success"
  <2>1. round \in Round /\ round \in Nat /\ batch \subseteq Sessions
    BY <1>1, RoundType DEF RInv, BufferTypeOK
  <2>2. batch \subseteq OfRound(round)
    BY <1>1, <2>1, StepOfTraining DEF RInv, InUse
  <2>3. \A k \in batch : ~ Past(k)
    BY <1>1, <2>1, <2>2 DEF OfRound, Past
  <2>4. \A k \in batch : tq[k] = "success"
    BY <1>1, <2>1, <2>3 DEF RInv, InUse, Tags
  <2> QED BY <2>2, <2>4
<1>2. RInv => TrainsOnItsOwn
  BY <1>1 DEF TrainsOnItsOwn
<1> QED BY <1>2, BufferKept, PTL

(* LateOnlyOfFailed for every run of batches: the cleanup leaves behind     *)
(* nothing but sessions that outlived their prompt.                         *)
THEOREM OnlyLateLeft == Spec => []LateOnlyOfFailed
<1>1. ASSUME RInv, NEW s \in Sessions, s[1] < round, tq[s] = "success"
      PROVE  prompt[UidOf(s)] = "failure"
  <2>1. UidOf(s) \in Uids /\ s \in SessionsOf(UidOf(s)) /\ UidOf(s)[1] = s[1]
    BY Keys
  <2>2. Past(UidOf(s)) /\ prompt[UidOf(s)] \in {"finished", "failure"}
    BY <1>1, <2>1 DEF RInv, Resolved, Past
  <2> QED BY <1>1, <2>1, <2>2 DEF RInv, LeftOver
<1>2. RInv => LateOnlyOfFailed
  BY <1>1 DEF LateOnlyOfFailed
<1> QED BY <1>2, BufferKept, PTL
=============================================================================
