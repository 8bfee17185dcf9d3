------------------------------ MODULE NpuStage ------------------------------
(***************************************************************************)
(* Staging: charsiu_pool_get and charsiu_npu_add.  A tensor is quantised   *)
(* once and remembered; its slices are dealt to the devices, least loaded  *)
(* first, each with a region of the device's input buffer (its K slice)    *)
(* and a region of the entry's own output buffer on that device.           *)
(*                                                                         *)
(* Any allocation may fail: the tensor then stays on the CPU for good,     *)
(* what was staged of it is given up, and the load it was charged for is   *)
(* not.                                                                    *)
(***************************************************************************)
EXTENDS Slices, Sequences, SequencesExt, FiniteSetsExt

CONSTANTS
    Tensors,    \* the weights of the model
    Shape,      \* [n, k, awq]: rows, columns, the AWQ factor or "none"
    Configs,    \* the knobs a run may be started with (see Slices), and
                \*   ndev, index (CHARSIU_NPU_DEAL_INDEX), split (the CPU
                \*   keeps half the rows), cap (entries), maxn
    RowAtom,    \* output channels of a feature atom
    TaskCost,   \* what the deal charges for a slice besides its weights
    Faults,     \* allocations that may fail
    MaxFaults

ASSUME StageAssumption ==
    /\ RowAtom \in Nat \ {0}
    /\ \A w \in Tensors : Shape[w].n \in Nat \ {0} /\ Shape[w].k \in Nat \ {0}
    /\ \A c \in Configs :
          /\ {c.kmax, c.nmax, c.atom} \subseteq Nat \ {0}
          /\ c.group \in Nat
          /\ c.ndev \in {1, 2}

VARIABLES
    cfg,        \* the knobs of this run
    memo,       \* per tensor: [built, id], id < 0 for a refused one
    ents,       \* the entries of the device, in order
    load, dealK,\* the deal's running load per device, and the K it is for
    faults

stageVars == <<cfg, memo, ents, load, dealK, faults>>

Devs == 0..(cfg.ndev - 1)
Id(w) == memo[w].id

StageInit ==
    /\ cfg \in Configs
    /\ memo = [w \in Tensors |-> [built |-> FALSE, id |-> -1]]
    /\ ents = <<>>
    /\ load = <<0, 0>>
    /\ dealK = 0
    /\ faults = 0

MaxK == Max({Shape[w].k : w \in Tensors})

-----------------------------------------------------------------------------
(* The rows the hardware is given of a tensor the CPU shares.              *)
RowsOnHardware(c, w) ==
    LET n == Shape[w].n
        keep == ((n \div 2) \div RowAtom) * RowAtom
    IN IF c.split /\ Grouped(c, Shape[w].k) /\ n >= 4 * RowAtom
       THEN Max({keep, RowAtom})
       ELSE n

Grids == [c \in Configs |-> [w \in Tensors |-> Grid(c, Shape[w].k, RowsOnHardware(c, w))]]

HardwareRows(w) == RowsOnHardware(cfg, w)
TheGrid(w) == Grids[cfg][w]

(* The deal: each slice goes to the device with the least work at its      *)
(* turn, counting what the slices before it of this walk were charged; or, *)
(* the older way, to the devices in turn.                                  *)
SliceCost(s) == TaskCost + s.k * s.n

Cost(grid, js) == MapThenSumSet(LAMBDA j : SliceCost(grid[j]), js)

ChargedTo(d, owner, grid, from, upto) ==
    from[d + 1] + IF cfg.ndev < 2 \/ cfg.index THEN 0
                  ELSE Cost(grid, {j \in 1..upto : owner[j] = d})

DealtBy(owner, grid, from) ==
    \A i \in DOMAIN grid :
        owner[i] =
            IF cfg.ndev < 2 THEN 0
            ELSE IF cfg.index
            THEN (grid[i].ki * (grid[Len(grid)].ni + 1) + grid[i].ni) % 2
            ELSE IF ChargedTo(0, owner, grid, from, i - 1)
                        <= ChargedTo(1, owner, grid, from, i - 1) THEN 0 ELSE 1

Deal(grid, from) ==
    CHOOSE owner \in [DOMAIN grid -> Devs] : DealtBy(owner, grid, from)

LoadAfter(owner, grid, from, upto) ==
    <<ChargedTo(0, owner, grid, from, upto), ChargedTo(1, owner, grid, from, upto)>>

(* A slice's region of the entry's output buffer on its device: the number *)
(* of slices that were put there before it.                                *)
Before(owner, i) == Cardinality({j \in 1..(i - 1) : owner[j] = owner[i]})

Slots(owner, grid) ==
    [i \in DOMAIN grid |->
        [di |-> owner[i], out |-> Before(owner, i), ki |-> grid[i].ki,
         k0 |-> grid[i].k0, k |-> grid[i].k, n0 |-> grid[i].n0, n |-> grid[i].n]]

(* A change of K is a call boundary: the deal starts level.                *)
LevelLoad(w) == IF dealK = Shape[w].k THEN load ELSE <<0, 0>>

(* The dry walk over a copy of the load, which sizes the output buffers.   *)
(* Mutant: over the load of the last tensor, whatever its K.               *)
ProbedUnlevelled(w) ==
    LET owner == Deal(TheGrid(w), load)
    IN [d \in Devs |-> Cardinality({i \in DOMAIN owner : owner[i] = d})]

Probed(w) ==
    LET owner == Deal(TheGrid(w), LevelLoad(w))
    IN [d \in Devs |-> Cardinality({i \in DOMAIN owner : owner[i] = d})]

-----------------------------------------------------------------------------
(* charsiu_npu_add.                                                        *)

SlotsUsed == MapThenSumSet(LAMBDA i : Len(ents[i].slots), DOMAIN ents)

Refused(w, dead) ==
    LET grid == TheGrid(w)
        most == MaxSlices(cfg, MaxK, cfg.maxn)
    IN \/ dead
       \/ Len(ents) = cfg.cap
       \/ Shape[w].n > cfg.maxn
       \/ KGroup(cfg, Shape[w].k) < Shape[w].k /\ ~Grouped(cfg, Shape[w].k)
       \/ Len(grid) > most
       \/ SlotsUsed + Len(grid) > cfg.cap * most

Entry(w, owner) ==
    [w |-> w, slots |-> Slots(owner, TheGrid(w)), room |-> Probed(w),
     ks |-> KSlices(cfg, Shape[w].k),
     hwrows |-> HardwareRows(w), cpurows |-> Shape[w].n - HardwareRows(w)]

Remember(w, id) == memo' = [memo EXCEPT ![w] = [built |-> TRUE, id |-> id]]

Fails(what) == what \in Faults /\ faults < MaxFaults /\ faults' = faults + 1

(* Refused before anything is touched.                                     *)
AddRefused(w, dead) ==
    /\ Refused(w, dead)
    /\ Remember(w, -1)
    /\ UNCHANGED <<cfg, ents, load, dealK, faults>>

(* An output buffer that would not allocate: nothing has been dealt yet.   *)
AddNoRoom(w, dead) ==
    /\ ~Refused(w, dead)
    /\ Fails("outbuf")
    /\ Remember(w, -1)
    /\ load' = LevelLoad(w)
    /\ dealK' = Shape[w].k
    /\ UNCHANGED <<cfg, ents>>

(* Mutant: the number was given out before the slices were staged.         *)
AddSliceFailsNumbered(w, dead) ==
    /\ ~Refused(w, dead)
    /\ Fails("slice")
    /\ Remember(w, Len(ents) + 1)
    /\ UNCHANGED <<cfg, ents, load, dealK>>

(* Slice i did not stage: the slices before it are forgotten, and the deal *)
(* keeps what it charged for them.                                         *)
AddSliceFails(w, dead) ==
    /\ ~Refused(w, dead)
    /\ Fails("slice")
    /\ \E owner \in {Deal(TheGrid(w), LevelLoad(w))}, i \in DOMAIN TheGrid(w) :
         load' = LoadAfter(owner, TheGrid(w), LevelLoad(w), i)
    /\ dealK' = Shape[w].k
    /\ Remember(w, -1)
    /\ UNCHANGED <<cfg, ents>>

AddOk(w, dead) ==
    /\ ~Refused(w, dead)
    /\ \E owner \in {Deal(TheGrid(w), LevelLoad(w))} :
         /\ ents' = Append(ents, Entry(w, owner))
         /\ load' = LoadAfter(owner, TheGrid(w), LevelLoad(w), Len(TheGrid(w)))
    /\ dealK' = Shape[w].k
    /\ Remember(w, Len(ents) + 1)
    /\ UNCHANGED <<cfg, faults>>

Add(w, dead) ==
    \/ AddRefused(w, dead) \/ AddNoRoom(w, dead) \/ AddSliceFails(w, dead)
    \/ AddOk(w, dead)

-----------------------------------------------------------------------------
(* charsiu_pool_get: the copy made once, whatever became of it; one that   *)
(* would not build is asked for again the next time.                       *)
PoolHit(w) == memo[w].built /\ UNCHANGED stageVars

PoolBuildFails(w) ==
    /\ ~memo[w].built
    /\ Fails("build")
    /\ UNCHANGED <<cfg, memo, ents, load, dealK>>

(* Every slot of the pool taken.                                           *)
PoolFull(w) ==
    /\ ~memo[w].built
    /\ Cardinality({u \in Tensors : memo[u].built}) >= cfg.cap
    /\ UNCHANGED stageVars

PoolGet(w, dead) ==
    \/ PoolHit(w)
    \/ PoolFull(w)
    \/ /\ ~memo[w].built
       /\ Cardinality({u \in Tensors : memo[u].built}) < cfg.cap
       /\ PoolBuildFails(w) \/ Add(w, dead)

-----------------------------------------------------------------------------
(* Properties.                                                             *)

(* The slices of a staged tensor cover each of the hardware's rows, at     *)
(* each of the tensor's columns, exactly once, and none is wider than a    *)
(* buffer is sized for: charsiu_npu_add, kslice.h.  Entries are only ever  *)
(* appended, so the newest one is looked at.                               *)
SlicesTile ==
    ents # <<>> =>
        LET e == Last(ents)
            s == ToSet(e.slots)
            cells(x) == (x.n0..(x.n0 + x.n - 1)) \X (x.k0..(x.k0 + x.k - 1))
        IN /\ \A x \in s : x.k \in 1..KmaxWide(cfg) /\ x.n \in 1..cfg.nmax
           /\ UNION {cells(x) : x \in s} =
                 (0..(HardwareRows(e.w) - 1)) \X (0..(Shape[e.w].k - 1))
           /\ \A a, b \in DOMAIN e.slots :
                 a # b => cells(e.slots[a]) \cap cells(e.slots[b]) = {}

(* Two slices of an entry never share an output region, and every region   *)
(* lies in the buffer the dry walk of the deal sized: the two walks of     *)
(* charsiu_npu_add agree, whatever load an earlier failure left behind.    *)
OutputsApart ==
    ents # <<>> =>
        LET s == Last(ents).slots
        IN \A a, b \in DOMAIN s :
             /\ s[a].out < Last(ents).room[s[a].di]
             /\ a # b => <<s[a].di, s[a].out>> # <<s[b].di, s[b].out>>

(* A tensor the pool believes on the NPU is the entry of that number, and  *)
(* no entry belongs to a tensor the pool believes on the CPU, whichever    *)
(* step of its staging failed: charsiu_pool_get against charsiu_npu_add.   *)
MemoTruthful ==
    /\ \A w \in Tensors : Id(w) # -1 => Id(w) \in DOMAIN ents /\ ents[Id(w)].w = w
    /\ \A i \in DOMAIN ents : Id(ents[i].w) = i
=============================================================================
