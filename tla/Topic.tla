-------------------------------- MODULE Topic --------------------------------
(***************************************************************************)
(* The key expressions of the mesh (pkg/zenohutil/topic.go) and the         *)
(* selector language of pkg/zenohutil/client.go.  A key is the sequence of  *)
(* its parts, and a part a record that keeps apart what the code tells      *)
(* apart: a team prefix, the rest, and capitals.                            *)
(***************************************************************************)
EXTENDS Naturals, Sequences

\* upper: the whole part is in capitals.
Name(prefix, base, upper) == [prefix |-> prefix, base |-> base, upper |-> upper]
Word(w) == Name("", w, FALSE)

ToLower(n) == [n EXCEPT !.upper = FALSE]

\* Mutation of BuildKey: the parts keep their capitals.
BuildKey_KeepsCase(tier, type, team, unit, stream) ==
  <<Word("sec"), Word(tier), Word(type), Word(team), unit, Word(stream)>>

BuildKey(tier, type, team, unit, stream) ==
  <<Word("sec"), Word(tier), Word(type), Word(team), ToLower(unit), Word(stream)>>

PartMatches(sel, part) == sel = Word("*") \/ sel = part

\* The loop of MatchesSelector.  The first "**" ends it: everything that follows
\* in the key is accepted, whatever follows in the selector, except that a "**"
\* that stands for nothing must be the selector's last part.
MatchesSelector(selector, key) ==
  LET wild == {i \in 1..Len(selector) : selector[i] = Word("**")}
      upTo == IF wild = {} THEN Len(selector)
                           ELSE (CHOOSE i \in wild : \A j \in wild : i <= j) - 1
  IN  /\ Len(key) >= upTo
      /\ \A i \in 1..upTo : PartMatches(selector[i], key[i])
      /\ Len(key) = upTo => Len(selector) <= upTo + 1
      /\ wild = {} => Len(key) = upTo
=============================================================================
