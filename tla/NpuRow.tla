------------------------------- MODULE NpuRow -------------------------------
(***************************************************************************)
(* A token's matvecs on the NPU: charsiu_npu_matvec for one tensor,        *)
(* charsiu_npu_matvec_group for two or three of one input, and the         *)
(* fallbacks of llama.c around them.  A fence waits two seconds and is     *)
(* believed whether or not the job has finished, so a job may be late: it  *)
(* is still in its device's queue when the next call packs the input it    *)
(* is to read.                                                             *)
(*                                                                         *)
(* Bytes are named by what they were made from: an input region by the     *)
(* call whose activation it holds, under which factor and which columns;   *)
(* an output region by the slice and the input that gave it.               *)
(***************************************************************************)
EXTENDS NpuStage

CONSTANTS
    Calls,      \* the sequences of tensors a layer may ask for together
    MaxCalls,   \* how many calls a behaviour makes
    AwqShare    \* CHARSIU_NPU_AWQ_SHARE

ASSUME RowAssumption ==
    /\ Calls \subseteq Seq(Tensors) \ {<<>>}
    /\ MaxCalls \in Nat

VARIABLES
    dead, strikes,  \* g->dead, g->strikes
    pc,
    call,       \* the call in hand: its tensors, number, mode, place, answers
    dev,        \* the next device to submit to
    waits,      \* the fences still to wait for, <<entry, device>>
    met,        \* every fence of this call so far was met
    inb,        \* [device][K slice]: what its input region holds
    queue,      \* [device]: the jobs not done, oldest first
    outb        \* [<<entry, slot>>]: what its output region holds

rowVars == <<dead, strikes, pc, call, dev, waits, met, inb, queue, outb>>
vars == <<stageVars, rowVars>>

Torn == [v |-> -1]

Init ==
    /\ StageInit
    /\ dead = FALSE
    /\ strikes = 0
    /\ pc = "idle"
    /\ call = [ws |-> <<>>, v |-> 0, mode |-> "single", at |-> 1, ans |-> <<>>]
    /\ dev = 0
    /\ waits = <<>>
    /\ met = TRUE
    /\ inb = [d \in {0, 1} |-> <<>>]
    /\ queue = [d \in {0, 1} |-> <<>>]
    /\ outb = <<>>

Current == call.ws[call.at]
IdsOf == [i \in DOMAIN call.ws |-> Id(call.ws[i])]
InCall == IF call.mode = "group" THEN IdsOf ELSE <<Id(Current)>>

-----------------------------------------------------------------------------
(* llama.c: matvec_pair for several tensors, matvec for one.               *)
BeginCall ==
    /\ pc = "idle"
    /\ call.v < MaxCalls
    /\ \E ws \in Calls :
         call' = [ws |-> ws, v |-> call.v + 1, at |-> 1,
                  mode |-> IF Len(ws) > 1 THEN "group" ELSE "single",
                  ans |-> [i \in DOMAIN ws |-> "none"]]
    /\ pc' = "stage"
    /\ UNCHANGED <<stageVars, dead, strikes, dev, waits, met, inb, queue, outb>>

OneByOne(c) == [c EXCEPT !.mode = "single", !.at = 1]

(* The current tensor is answered; the call ends with its last.            *)
Answer(what) ==
    /\ call' = [call EXCEPT !.ans[call.at] = what,
                            !.at = Least(call.at + 1, Len(call.ws))]
    /\ pc' = IF call.at = Len(call.ws) THEN "idle" ELSE "stage"

(* The group stages its tensors in turn and gives up at the first that is  *)
(* not on the NPU.                                                         *)
StageGroup ==
    /\ pc = "stage" /\ call.mode = "group"
    /\ PoolGet(Current, dead)
    /\ call' = IF memo'[Current].id = -1 THEN OneByOne(call)
               ELSE IF call.at = Len(call.ws) THEN call
               ELSE [call EXCEPT !.at = @ + 1]
    /\ pc' = IF memo'[Current].id # -1 /\ call.at = Len(call.ws)
             THEN "group" ELSE "stage"
    /\ UNCHANGED <<dead, strikes, dev, waits, met, inb, queue, outb>>

(* matvec_again: npu_get, then the hardware or the CPU.                    *)
StageOne ==
    /\ pc = "stage" /\ call.mode = "single"
    /\ PoolGet(Current, dead)
    /\ IF memo'[Current].id # -1 /\ ~dead
       THEN pc' = "pack" /\ UNCHANGED call
       ELSE Answer("cpu")
    /\ UNCHANGED <<dead, strikes, dev, waits, met, inb, queue, outb>>

-----------------------------------------------------------------------------
(* What charsiu_npu_matvec_group refuses.                                  *)
Factors == {Shape[call.ws[i]].awq : i \in DOMAIN call.ws}
GroupRefused ==
    \/ dead
    \/ Cardinality(Factors) > 1
    \/ Factors # {"none"} /\ ~AwqShare
    \/ Cardinality({Shape[call.ws[i]].k : i \in DOMAIN call.ws}) > 1

CheckGroup ==
    /\ pc = "group"
    /\ IF GroupRefused
       THEN pc' = "stage" /\ call' = OneByOne(call)
       ELSE pc' = "pack" /\ UNCHANGED call
    /\ UNCHANGED <<stageVars, dead, strikes, dev, waits, met, inb, queue, outb>>

(* The activation goes into the input buffer of every device, one region   *)
(* for each K slice of the first entry.  A job of an earlier call that is  *)
(* running meanwhile may read some of both.                                *)
Region(e, ki) ==
    LET s == CHOOSE x \in ToSet(e.slots) : x.ki = ki
    IN [v |-> call.v, f |-> Shape[e.w].awq, k0 |-> s.k0, k |-> s.k]

Repacked(regions, e) ==
    [ki \in DOMAIN regions \cup 0..(e.ks - 1) |->
        IF ki < e.ks THEN Region(e, ki) ELSE regions[ki]]

MayTear(d) ==
    IF queue[d] = <<>> THEN {queue[d]}
    ELSE {[queue[d] EXCEPT ![1].torn = t] : t \in {queue[d][1].torn, TRUE}}

(* Mutant: only the first device's input buffer.                           *)
PackFirstDevice ==
    /\ pc = "pack"
    /\ inb' = [inb EXCEPT ![0] = Repacked(@, ents[InCall[1]])]
    /\ pc' = "submit"
    /\ UNCHANGED <<stageVars, dead, strikes, call, dev, waits, met, queue, outb>>

Pack ==
    /\ pc = "pack"
    /\ LET e == ents[InCall[1]]
       IN inb' = [d \in {0, 1} |->
                    IF d \in Devs THEN Repacked(inb[d], e) ELSE inb[d]]
    /\ \E q0 \in MayTear(0), q1 \in MayTear(1) :
         queue' = [queue EXCEPT ![0] = q0, ![1] = q1]
    /\ pc' = "submit"
    /\ UNCHANGED <<stageVars, dead, strikes, call, dev, waits, met, outb>>

-----------------------------------------------------------------------------
(* One job list per device, both queued before either is waited for.       *)
TasksOn(d) ==
    UNION {{<<i, j>> : j \in {x \in DOMAIN ents[i].slots :
                                ents[i].slots[x].di = d}} : i \in ToSet(InCall)}

Job(d) == [tasks |-> TasksOn(d), torn |-> FALSE]

(* The single call waits only for the devices it gave work; the group for  *)
(* every entry on every device, in this order.                             *)
FencesOn(d) == IF TasksOn(d) = {} THEN <<>> ELSE << <<InCall[1], d>> >>
Fences ==
    IF call.mode = "group"
    THEN [i \in 1..(Len(InCall) * cfg.ndev) |->
            <<InCall[(i - 1) \div cfg.ndev + 1], (i - 1) % cfg.ndev>>]
    ELSE FencesOn(0) \o FencesOn(1)

(* The last device's submit is followed by the fences.  (The group's limit *)
(* of 4 * max_slices tasks is out of reach: llama.c asks for three.)       *)
Submit ==
    /\ pc = "submit"
    /\ queue' = IF TasksOn(dev) = {} THEN queue
                ELSE [queue EXCEPT ![dev] = Append(@, Job(dev))]
    /\ dev' = (dev + 1) % cfg.ndev
    /\ IF dev' = 0 THEN pc' = "fence" /\ waits' = Fences
                   ELSE UNCHANGED <<pc, waits>>
    /\ UNCHANGED <<stageVars, dead, strikes, call, met, inb, outb>>

(* A submit the driver refuses retires the pool, whatever the other device *)
(* was given.                                                              *)
SubmitFails ==
    /\ pc = "submit"
    /\ TasksOn(dev) # {}
    /\ Fails("submit")
    /\ strikes' = 3
    /\ dead' = TRUE
    /\ IF call.mode = "group"
       THEN pc' = "stage" /\ call' = OneByOne(call)
       ELSE Answer("cpu")
    /\ dev' = 0
    /\ UNCHANGED <<cfg, memo, ents, load, dealK, waits, met, inb, queue, outb>>

-----------------------------------------------------------------------------
(* charsiu_bo_prep: returns when no job queued on the device writes this   *)
(* entry's buffer, or at its deadline; what it returns is not looked at.   *)
Owed(i, d) ==
    \E j \in DOMAIN queue[d] : \E task \in queue[d][j].tasks : task[1] = i

Fence(inTime) ==
    /\ pc = "fence" /\ waits # <<>>
    /\ inTime <=> ~Owed(Head(waits)[1], Head(waits)[2])
    /\ met' = (met /\ inTime)
    /\ waits' = Tail(waits)
    /\ UNCHANGED <<stageVars, dead, strikes, pc, call, dev, inb, queue, outb>>

FenceMet == Fence(TRUE)
(* Mutant: a fence without a deadline.                                     *)
FenceNoDeadline == FALSE /\ UNCHANGED vars
FenceTimesOut == Fence(FALSE)

-----------------------------------------------------------------------------
(* What is summed into the answer: whole, of this call's activation.       *)
SlotRight(i, j) ==
    LET s == ents[i].slots[j]
    IN /\ <<i, j>> \in DOMAIN outb
       /\ outb[<<i, j>>] = [v |-> call.v, f |-> Shape[ents[i].w].awq,
                            k0 |-> s.k0, k |-> s.k]

(* The rows a split tensor leaves to the CPU, of its codes and the         *)
(* activation as it came: the codes of a tensor with an AWQ factor would   *)
(* need it multiplied by the factor (cpu_rows).                            *)
CpuHas(e, row) == e.cpurows > 0 /\ row >= e.hwrows
CpuRowsScaled(e) == e.cpurows > 0 => Shape[e.w].awq = "none"

RowsCovered(e) ==
    \A row \in 0..(Shape[e.w].n - 1) :
        \/ \E s \in ToSet(e.slots) : row \in s.n0..(s.n0 + s.n - 1)
        \/ CpuHas(e, row)

Judged(i) ==
    LET whole == RowsCovered(ents[i]) /\ \A j \in DOMAIN ents[i].slots : SlotRight(i, j)
    IN IF whole THEN IF CpuRowsScaled(ents[i]) THEN "right" ELSE "unscaled"
       ELSE IF met THEN "wrong" ELSE "late"

(* What was read is of no call to come.                                    *)
Forget == outb' = <<>> /\ met' = TRUE

(* The single call: three slow ones in a row retire the pool.  A fence     *)
(* that ran out took longer than the limit.                                *)
ReadOne ==
    /\ pc = "fence" /\ waits = <<>> /\ call.mode = "single"
    /\ \E slow \in BOOLEAN :
         /\ ~met => slow
         /\ strikes' = IF slow THEN strikes + 1 ELSE 0
    /\ dead' = (strikes' >= 3)
    /\ Answer(IF dead' THEN "cpu" ELSE Judged(InCall[1]))
    /\ Forget
    /\ UNCHANGED <<stageVars, dev, waits, inb, queue>>

(* The group looks at no clock.                                            *)
ReadGroup ==
    /\ pc = "fence" /\ waits = <<>> /\ call.mode = "group"
    /\ call' = [call EXCEPT !.ans = [i \in DOMAIN call.ws |-> Judged(IdsOf[i])]]
    /\ pc' = "idle"
    /\ Forget
    /\ UNCHANGED <<stageVars, dead, strikes, dev, waits, inb, queue>>

-----------------------------------------------------------------------------
(* A device runs the oldest job of its queue.                              *)
Complete(d) ==
    /\ queue[d] # <<>>
    /\ LET job == Head(queue[d])
           ki(t) == ents[t[1]].slots[t[2]].ki
           read(t) == IF job.torn \/ ki(t) \notin DOMAIN inb[d] THEN Torn
                      ELSE inb[d][ki(t)]
       IN outb' = [t \in DOMAIN outb \cup job.tasks |->
                     IF t \in job.tasks THEN read(t) ELSE outb[t]]
    /\ queue' = [queue EXCEPT ![d] = Tail(@)]
    /\ UNCHANGED <<stageVars, dead, strikes, pc, call, dev, waits, met, inb>>

Caller ==
    \/ StageGroup \/ StageOne \/ CheckGroup \/ Pack \/ Submit
    \/ SubmitFails \/ FenceMet \/ FenceTimesOut
    \/ ReadOne \/ ReadGroup

Next == BeginCall \/ Caller \/ \E d \in {0, 1} : Complete(d)

Spec == Init /\ [][Next]_vars

(* The caller keeps going; nothing is owed by the devices.                 *)
FairSpec == Spec /\ WF_vars(Caller)

-----------------------------------------------------------------------------
(* A tensor with an AWQ factor whose last rows the CPU keeps.              *)
FactorAndSplit(w) == Shape[w].awq # "none" /\ HardwareRows(w) < Shape[w].n

(* An answer of the NPU is the whole product of this call's own activation *)
(* whenever the call's own fences were met, however many jobs of earlier   *)
(* calls that ran late were still queued when it packed its input, and     *)
(* whatever failed in staging: charsiu_npu_matvec, charsiu_npu_matvec_group.*)
(* But for the CPU's rows of a tensor that has a factor and is split; its  *)
(* other rows are right.                                                   *)
FencedAnswersRight ==
    \A i \in DOMAIN call.ans :
        /\ call.ans[i] # "wrong"
        /\ call.ans[i] = "unscaled" => FactorAndSplit(call.ws[i])

(* Every call ends with an answer to each of its tensors, also when the    *)
(* devices never finish another job: a fence gives up, and the CPU takes   *)
(* over: matvec_pair, matvec_again.                                        *)
EveryCallAnswered ==
    (pc # "idle") ~> (pc = "idle" /\ \A i \in DOMAIN call.ans : call.ans[i] # "none")
=============================================================================
