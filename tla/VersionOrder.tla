---------------------------- MODULE VersionOrder ----------------------------
(***************************************************************************)
(* Version.Compare of version.go: the order that every gate of a statement *)
(* is decided by.                                                          *)
(*                                                                         *)
(* The loop over the components is kept, with the padding of the shorter   *)
(* list and the width of Go's int, because the answer is a difference of   *)
(* two uint32 components taken as int.  The widths are constants: a 64-bit *)
(* build has MaxInt far above MaxPart, a 32-bit build has it at half.      *)
(* Raw and Suffix are never compared and are left out.                     *)
(***************************************************************************)
EXTENDS Integers, Sequences

CONSTANTS
    MaxPart,    \* the largest uint32
    MaxInt,     \* the largest int of the build
    Versions    \* the versions that are compared

Version == [parts : Seq(0..MaxPart), unknown : BOOLEAN]

ASSUME VersionAssumption ==
    /\ MaxPart \in Nat /\ MaxInt \in Nat \ {0}
    /\ Versions \subseteq Version

VARIABLES
    receiver, argument,   \* the two versions: v, and ver its argument
    at,         \* i: the component the loop looks at, counted from 0
    sign,       \* what Compare returned, or 0 while it has not
    returned

compareVars == <<receiver, argument, at, sign, returned>>

\* Version.part: the component, or zero when the version is shorter than that.
part(a, k) == IF k < Len(a.parts) THEN a.parts[k + 1] ELSE 0

Components ==
    IF Len(receiver.parts) < Len(argument.parts) THEN Len(argument.parts)
    ELSE Len(receiver.parts)

\* A value in an int of the build, once it has wrapped.
AsInt(n) ==
    IF n > MaxInt THEN n - 2 * (MaxInt + 1)
    ELSE IF n < -(MaxInt + 1) THEN n + 2 * (MaxInt + 1)
    ELSE n

\* The difference that is returned, each component taken as an int first.
Difference(a, b, k) == AsInt(AsInt(part(a, k)) - AsInt(part(b, k)))

Returns(n) == /\ sign' = n /\ returned' = TRUE
              /\ UNCHANGED <<receiver, argument, at>>

CompareInit ==
    /\ receiver \in Versions /\ argument \in Versions
    /\ at = 0 /\ sign = 0 /\ returned = FALSE

\* Mutant: an unknown version is older than every known one.
UnknownOldest ==
    /\ ~returned /\ at = 0
    /\ \/ receiver.unknown /\ argument.unknown /\ Returns(0)
       \/ receiver.unknown /\ ~argument.unknown /\ Returns(-1)
       \/ ~receiver.unknown /\ argument.unknown /\ Returns(1)

\* The switch on Unknown.
Unknowns ==
    /\ ~returned /\ at = 0
    /\ \/ receiver.unknown /\ argument.unknown /\ Returns(0)
       \/ receiver.unknown /\ ~argument.unknown /\ Returns(1)
       \/ ~receiver.unknown /\ argument.unknown /\ Returns(-1)

Looping == ~returned /\ ~receiver.unknown /\ ~argument.unknown

Differ ==
    /\ Looping /\ at < Components
    /\ part(receiver, at) # part(argument, at)
    /\ Returns(Difference(receiver, argument, at))

Equal ==
    /\ Looping /\ at < Components
    /\ part(receiver, at) = part(argument, at)
    /\ at' = at + 1
    /\ UNCHANGED <<receiver, argument, sign, returned>>

Same ==
    /\ Looping /\ at = Components
    /\ Returns(0)

CompareNext == Unknowns \/ Differ \/ Equal \/ Same

CompareSpec == CompareInit /\ [][CompareNext]_compareVars /\ WF_compareVars(CompareNext)

---------------------------------------------------------------------------
(* Properties. *)

\* Every variable keeps its type: the loop stays within the longer list, and the
\* answer is an int of the build.
CompareTypeOK ==
    /\ receiver \in Versions /\ argument \in Versions
    /\ at \in 0..Components
    /\ sign \in -(MaxInt + 1)..MaxInt
    /\ returned \in BOOLEAN

\* a is older than b: it is smaller in the first component they differ in, with
\* the shorter list padded with zeros, or b is unknown and a is not.
Older(a, b) ==
    \/ ~a.unknown /\ b.unknown
    \/ /\ ~a.unknown /\ ~b.unknown
       /\ \E k \in 0..(Len(a.parts) + Len(b.parts)) :
             /\ part(a, k) < part(b, k)
             /\ \A j \in 0..(k - 1) : part(a, j) = part(b, j)

\* Compare returns a negative number when the receiver is older, a positive one
\* when it is newer, and zero otherwise (the comment on Version.Compare).
SaysTheOrder ==
    returned => /\ sign < 0 <=> Older(receiver, argument)
                /\ sign > 0 <=> Older(argument, receiver)

=============================================================================
