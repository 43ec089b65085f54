----------------------------- MODULE MCC2Dispatch -----------------------------
(***************************************************************************)
(* C2Dispatch with a simulated and a MAVLink drone of the blue team, one of  *)
(* them with a name in capitals, and a red drone for which test telemetry    *)
(* can be injected.                                                          *)
(***************************************************************************)
EXTENDS C2Dispatch

Agent(id, team, type, kind) == [id |-> id, team |-> team, type |-> type, kind |-> kind]

BlueAlpha == Name("blue-", "alpha", FALSE)
BRAVO == Name("", "bravo", TRUE)
Red1 == Name("red-", "1", FALSE)

MCAgents == {Agent(BlueAlpha, "blue", "drone", "sim"), Agent(BRAVO, "blue", "drone", "mavlink"),
             Agent(Red1, "red", "drone", "sim")}
MCTargets == {NoName, BlueAlpha, ToLower(BRAVO), Red1}
MCInjected == {Red1}
MCSelector == <<Word("sec"), Word("tier2"), Word("**")>>

-----------------------------------------------------------------------------

Parts == {Word("a"), Word("b")}
Keys == UNION {[1..n -> Parts] : n \in 1..3}
Selectors == UNION {[1..n -> Parts \cup {Word("*"), Word("**")}] : n \in 1..3}

\* What Zenoh's key expressions mean: "**" stands for any number of parts.
ZenohMatches[s \in Selectors \cup {<<>>}, k \in Keys \cup {<<>>}] ==
  IF s = <<>> THEN k = <<>>
  ELSE IF Head(s) = Word("**")
    THEN \E n \in 0..Len(k) : ZenohMatches[Tail(s), SubSeq(k, n + 1, Len(k))]
  ELSE k # <<>> /\ PartMatches(Head(s), Head(k)) /\ ZenohMatches[Tail(s), Tail(k)]

\* MatchesSelector agrees with it for all selectors in which "**" comes last, if
\* at all, which those of the repository do ("a/**/b" matches too much).
ASSUME SelectorsAgree ==
  \A s \in Selectors : \A k \in Keys :
    (\A i \in 1..(Len(s) - 1) : s[i] # Word("**"))
      => (MatchesSelector(s, k) <=> ZenohMatches[s, k])
=============================================================================
