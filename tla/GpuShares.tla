----------------------------- MODULE GpuShares -----------------------------
(***************************************************************************)
(* Whose memory a card shows: buildGpuOwnerGroups of the web console (the  *)
(* mobile application has a copy).  A report says how much memory tasks    *)
(* have reserved on a card and how much other processes use; of what the   *)
(* tasks use only the sum is known, as what is left of the used memory,    *)
(* and is divided among their owners in whole megabytes.  Every owner gets *)
(* a colour of its own.                                                    *)
(*                                                                         *)
(* A card is put together row by row, so that every small one occurs.      *)
(* Left out: labels, the number of tasks and processes, and the rounding   *)
(* of the quotients, which are exact here.                                 *)
(***************************************************************************)
EXTENDS Integers, FiniteSets, SequencesExt

CONSTANTS Alphabet,         \* keys of owners in alphabetical order, managed:... first
          Hash(_),          \* the place of a key in the palette
          Palette, Hues,    \* length of OWNER_PALETTE, and its different hues
          MaxMb, MaxRows    \* bounds: megabytes of a row, rows of a card

\* ownerColor.ts: a hash is reduced to a place of the palette.
ASSUME ShareAssumption ==
  /\ Alphabet # <<>> /\ Alphabet \in Seq(ToSet(Alphabet))
  /\ \A i, j \in DOMAIN Alphabet : Alphabet[i] = Alphabet[j] => i = j
  /\ Palette \in Nat \ {0} /\ Hues \in Nat \ {0}
  /\ \A k \in ToSet(Alphabet) : Hash(k) \in 1 .. Palette
  /\ MaxMb \in Nat /\ MaxRows \in Nat

VARIABLE
  card    \* [tasks, processes, unknown, used]: rows [key, mb], and megabytes

shareVars == <<card>>

Key == ToSet(Alphabet)
rows == card.tasks \o card.processes

Amounts(rs) == [i \in DOMAIN rs |-> rs[i].mb]
TotalMb(rs) == SumFunctionOnSet(Amounts(rs), DOMAIN rs)
MbOf(k, rs) == SumFunctionOnSet(Amounts(rs), {i \in DOMAIN rs : rs[i].key = k})
clamp(value, low, high) == Min({Max({value, low}), high})

(***************************************************************************)
(* Groups.                                                                 *)
(***************************************************************************)
\* ensureOwnerGroup: a group is made by the first row of its owner.
Owners    == {rows[i].key : i \in DOMAIN rows}
FirstRow(k) == Min({i \in DOMAIN rows : rows[i].key = k})
managedReservedMb(k) == MbOf(k, card.tasks)
unmanagedMb(k)       == MbOf(k, card.processes)

totalManagedReserved == TotalMb(card.tasks)
\* The memory the tasks really use.
totalActualManaged ==
  clamp(card.used - TotalMb(card.processes) - card.unknown, 0, totalManagedReserved)
freeMb(total) == Max({0, total - TotalMb(rows) - card.unknown})

(***************************************************************************)
(* distributeManagedActual: the method of the largest remainder.           *)
(***************************************************************************)
managed == {k \in Owners : managedReservedMb(k) > 0}
floorShare(k) == (totalActualManaged * managedReservedMb(k)) \div totalManagedReserved
remainder(k)  == (totalActualManaged * managedReservedMb(k)) % totalManagedReserved

\* The order of estimates.sort, which keeps equal ones as they are.
SortedBefore(j, k) ==
  \/ remainder(j) > remainder(k)
  \/ remainder(j) = remainder(k) /\ managedReservedMb(j) > managedReservedMb(k)
  \/ remainder(j) = remainder(k) /\ managedReservedMb(j) = managedReservedMb(k)
     /\ FirstRow(j) < FirstRow(k)

left == totalActualManaged - SumFunctionOnSet([k \in managed |-> floorShare(k)], managed)

\* Mutant: every owner gets what is left.
OneMoreForAll(k) == clamp(floorShare(k) + (IF left > 0 THEN 1 ELSE 0), 0, managedReservedMb(k))

ShareOf(k) ==
  LET place == Cardinality({j \in managed : SortedBefore(j, k)})
  IN  clamp(floorShare(k) + (IF place < left THEN 1 ELSE 0), 0, managedReservedMb(k))

managedActualMb(k) == IF k \in managed /\ totalActualManaged > 0 THEN ShareOf(k) ELSE 0

(***************************************************************************)
(* Colours, as places of the palette.                                      *)
(***************************************************************************)
hexToHue(c) == c % Hues
hueDistance(a, b) == Min({(a - b) % Hues, (b - a) % Hues})

\* The place of the hash, or the free place whose hue is farthest from all.
getOwnerColor(k, used) ==
  LET free == 1 .. Palette \ used
      far(c) == Min({hueDistance(hexToHue(c), hexToHue(u)) : u \in used})
  IN  IF Hash(k) \notin used \/ free = {} THEN Hash(k)
      ELSE Min({c \in free : \A d \in free : far(d) <= far(c)})

\* Alphabetically; 0 for a key that has no group.
Colored(colors, k) ==
  IF k \notin Owners THEN colors
  ELSE [colors EXCEPT ![k] = getOwnerColor(k, {colors[j] : j \in Key} \ {0})]
assignGroupColors == FoldLeft(Colored, [k \in Key |-> 0], Alphabet)

(***************************************************************************)
(* Reports.                                                                *)
(***************************************************************************)
ShareInit ==
  card = [tasks |-> <<>>, processes |-> <<>>, unknown |-> 0, used |-> 0]

\* An owner may have nothing reserved; the rows of unknown processes count as
\* one.  What is measured as used need not agree with the rows.
TaskRow(k, mb) ==
  /\ Len(rows) < MaxRows
  /\ card' = [card EXCEPT !.tasks = Append(@, [key |-> k, mb |-> mb])]
ProcessRow(k, mb) ==
  /\ Len(rows) < MaxRows /\ k # Head(Alphabet)
  /\ card' = [card EXCEPT !.processes = Append(@, [key |-> k, mb |-> mb])]
UnknownRow(mb) ==
  /\ card.unknown = 0 /\ card' = [card EXCEPT !.unknown = mb]
Measured ==
  /\ card.used < MaxRows * MaxMb /\ card' = [card EXCEPT !.used = @ + 1]

ShareNext ==
  \/ \E k \in Key, mb \in 0 .. MaxMb : TaskRow(k, mb) \/ ProcessRow(k, mb)
  \/ \E mb \in 1 .. MaxMb : UnknownRow(mb)
  \/ Measured

ShareSpec == ShareInit /\ [][ShareNext]_shareVars

(***************************************************************************)
(* Properties.                                                             *)
(***************************************************************************)
\* What the owners are said to use adds up to what the tasks really use.
SharesAdd ==
  SumFunctionOnSet([k \in Owners |-> managedActualMb(k)], Owners) = totalActualManaged

\* A share is within a megabyte of the exact one, at most what is reserved, and
\* whoever has reserved more does not get less.
ShareIsFair(k) ==
  LET mine == managedActualMb(k)
      off  == totalManagedReserved * mine - totalActualManaged * managedReservedMb(k)
  IN  /\ off < totalManagedReserved /\ -off < totalManagedReserved
      /\ mine \in 0 .. managedReservedMb(k)
      /\ \A j \in managed : managedReservedMb(j) > managedReservedMb(k) =>
                             managedActualMb(j) >= mine

\* The owners of a card have different colours while there are enough of them.
ColorsDiffer ==
  LET colors == assignGroupColors
  IN  Cardinality(Owners) <= Palette => \A j, k \in Owners : j # k => colors[j] # colors[k]

\* The three together: however the rows of a card and what is measured of it disagree.
SharesAddUp == SharesAdd /\ (\A k \in managed : ShareIsFair(k)) /\ ColorsDiffer
=============================================================================
