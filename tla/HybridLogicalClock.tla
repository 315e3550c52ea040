-------------------------- MODULE HybridLogicalClock --------------------------
(***************************************************************************)
(* HybridLogicalClock (rpc_core/utils): milliseconds and a logical counter *)
(* that share 64 bits.  A clock is a record here; Raw is the packed value, *)
(* which the comparisons of the class use.  The physical part is taken to  *)
(* fit its 48 bits.                                                        *)
(***************************************************************************)
EXTENDS Integers

CONSTANTS
    LogicalRange,   \* 2^kLogicalBits
    MaxTime         \* bound on the physical times

ASSUME LogicalRangeAssumption == LogicalRange \in Nat \ {0}

ASSUME MaxTimeAssumption == MaxTime \in Nat

Times == 0 .. MaxTime

Clocks == [physical : Times, logical : 0 .. LogicalRange - 1]

\* Pack: the shift leaves room for the logical counter.
Raw(c) == c.physical * LogicalRange + c.logical

\* operator<
Before(c, d) == \/ c.physical < d.physical
                \/ c.physical = d.physical /\ c.logical < d.logical

Now(t) == [physical |-> t, logical |-> 0]

Larger(a, b) == IF a < b THEN b ELSE a

\* The increment is masked: the counter wraps.
BumpLogical(l) == (l + 1) % LogicalRange

\* Mutant: the local clock is not looked at.
WallClockAheadOfRemote(local, remote, now) == now > remote.physical

\* Merge's test that the wall clock is ahead of both.
WallClockAhead(local, remote, now) ==
    now > local.physical /\ now > remote.physical

\* The counter that Merge goes on from when the wall clock is not ahead; -1,
\* which bumps to 0, when neither clock has the largest physical time.
LogicalBase(local, remote, top) ==
    IF top = local.physical /\ top = remote.physical
      THEN Larger(local.logical, remote.logical)
    ELSE IF top = local.physical THEN local.logical
    ELSE IF top = remote.physical THEN remote.logical
    ELSE -1

\* Mutant: the remote counter is not looked at when the times are equal.
MergeIgnoresRemote(local, remote, now) ==
    LET top == Larger(now, Larger(local.physical, remote.physical))
    IN  [physical |-> top,
         logical |-> IF top = local.physical THEN BumpLogical(local.logical)
                     ELSE IF top = remote.physical
                       THEN BumpLogical(remote.logical) ELSE 0]

\* Merge; TickLocal is a merge with the clock itself.
Merge(local, remote, now) ==
    IF WallClockAhead(local, remote, now)
      THEN Now(now)
      ELSE LET top == Larger(now, Larger(local.physical, remote.physical))
           IN  [physical |-> top,
                logical |-> BumpLogical(LogicalBase(local, remote, top))]

\* Merge goes on from the last value of the counter.
MergeWraps(local, remote, now) ==
    LET top == Larger(now, Larger(local.physical, remote.physical))
    IN  LogicalBase(local, remote, top) = LogicalRange - 1
=============================================================================
