----------------------------- MODULE UnifiedDiff -----------------------------
(***************************************************************************)
(* UnifiedDiff (internal/router/roles.go), the line diff the wizard shows  *)
(* before it writes roles.conf.  A text is its lines; the diff is a        *)
(* sequence of lines, each with the mark it is printed behind: a blank for *)
(* one that is kept, - for one removed, + for one added.                   *)
(***************************************************************************)
EXTENDS Naturals, Sequences, SequencesExt

Larger(a, b) == IF a > b THEN a ELSE b

(* A corner of the table: a line of old, a line of new, or past the last.  *)
Corners(old, new) == (1 .. Len(old) + 1) \X (1 .. Len(new) + 1)

(* Mutation: a line in common counts for nothing.                          *)
CommonUncounted(old, new) ==
    LET lcs[at \in Corners(old, new)] ==
          LET i == at[1]  j == at[2]
          IN  IF i > Len(old) \/ j > Len(new) THEN 0
              ELSE IF old[i] = new[j] THEN lcs[<<i + 1, j + 1>>]
              ELSE Larger(lcs[<<i + 1, j>>], lcs[<<i, j + 1>>])
    IN  lcs

(* The table: the length of a longest common subsequence of what is left   *)
(* of old from line i and of new from line j.                              *)
CommonFrom(old, new) ==
    LET lcs[at \in Corners(old, new)] ==
          LET i == at[1]  j == at[2]
          IN  IF i > Len(old) \/ j > Len(new) THEN 0
              ELSE IF old[i] = new[j] THEN lcs[<<i + 1, j + 1>>] + 1
              ELSE Larger(lcs[<<i + 1, j>>], lcs[<<i, j + 1>>])
    IN  lcs

Marked(mark, lines) == [i \in DOMAIN lines |-> [mark |-> mark, line |-> lines[i]]]

From(lines, i) == SubSeq(lines, i, Len(lines))

(* The walk over both texts.                                               *)
Diffed(old, new) ==
    LET lcs == CommonFrom(old, new)
        walk[at \in Corners(old, new)] ==
          LET i == at[1]  j == at[2]
          IN  IF i > Len(old) THEN Marked("added", From(new, j))
              ELSE IF j > Len(new) THEN Marked("removed", From(old, i))
              ELSE IF old[i] = new[j]
                   THEN Marked("kept", <<old[i]>>) \o walk[<<i + 1, j + 1>>]
              ELSE IF lcs[<<i + 1, j>>] >= lcs[<<i, j + 1>>]
                   THEN Marked("removed", <<old[i]>>) \o walk[<<i + 1, j>>]
              ELSE Marked("added", <<new[j]>>) \o walk[<<i, j + 1>>]
    IN  walk[<<1, 1>>]

-----------------------------------------------------------------------------
(* What a reader of the diff can tell from it, and what it should be.      *)
LinesMarked(diff, marks) ==
    FlattenSeq([i \in DOMAIN diff |->
                  IF diff[i].mark \in marks THEN <<diff[i].line>> ELSE << >>])

(* The ways to go up through n of the places.                              *)
Climbs(n, places) ==
    {at \in [1 .. n -> places] : \A k, l \in 1 .. n : k < l => at[k] < at[l]}

(* n lines that stand in both texts, in the same order.                    *)
Share(old, new, n) ==
    \E inOld \in Climbs(n, DOMAIN old), inNew \in Climbs(n, DOMAIN new) :
       \A k \in 1 .. n : old[inOld[k]] = new[inNew[k]]

LongestCommon(old, new) == Max({n \in 0 .. Len(old) : Share(old, new, n)})

(* The diff reads as old without its added lines and as new without its    *)
(* removed ones, and calls no line changed that could have been kept.      *)
TellsTheChange(diff, old, new) ==
    /\ LinesMarked(diff, {"kept", "removed"}) = old
    /\ LinesMarked(diff, {"kept", "added"}) = new
    /\ Len(LinesMarked(diff, {"kept"})) = LongestCommon(old, new)
=============================================================================
