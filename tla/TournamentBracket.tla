--------------------------- MODULE TournamentBracket ---------------------------
(***************************************************************************)
(* A tournament played in parallel (tournament.rs, run_parallel): pot      *)
(* groups, the circle-method round robin, waves of matches on threads in   *)
(* chunks of max_parallelism, brains carried from match to match, group    *)
(* tables with their tie-breakers, the knockout and the podium.            *)
(*                                                                         *)
(* Teams are 1, 2, ... in entry order.  A brain is the number of matches   *)
(* whose outcome it carries.  The score of a match, the shootout of a      *)
(* level knockout match and the failure of a thread are free.              *)
(***************************************************************************)
EXTENDS Naturals, Integers, Sequences, SequencesExt, FiniteSets

CONSTANTS
  Formats,  \* records: groups, size, advancers, double, third
  Scores,   \* pairs of goals
  Seeds,    \* the seed of each team
  MaxPar,   \* max_parallelism
  Nothing, Error

ASSUME BracketAssumption ==
  /\ \A f \in Formats : f.groups \in Nat \ {0} /\ f.size \in Nat /\ f.advancers \in Nat
                        /\ f.double \in BOOLEAN /\ f.third \in BOOLEAN
  /\ Scores \subseteq Nat \X Nat
  /\ MaxPar \in Nat \ {0} /\ Nothing \notin Scores \union Nat /\ Error \notin Scores

VARIABLES
  format,    \* TournamentFormat, chosen once
  stage,     \* "group", "knockout", "third", "done", "failed"
  round,     \* round_index of the stage
  wave,      \* the fixtures being played; <<>> between waves
  inputs,    \* the brains cloned for them
  outcomes,  \* of each: Nothing while it runs, Error or its score
  reports,   \* committed matches
  record, brain, h2h,  \* of each team, of each group fixture
  tables,    \* the ranking of each group
  current,   \* teams left in the bracket
  losers,    \* semifinal_losers
  podium     \* champion, runner-up and third

playing == <<wave, inputs, outcomes>>
books == <<reports, record, brain, h2h>>
bracketVars == <<format, stage, round, playing, books, tables, current, losers, podium>>

Teams(f) == 1..f.groups * f.size

\* is_power_of_two, without powers: it has no odd divisor.
PowerOfTwo(n) == n >= 1 /\ \A d \in 2..n : n % d = 0 => d % 2 = 0

\* TournamentFormat::validate
Valid(f) ==
  /\ f.size >= 2 /\ f.advancers \in 1..f.size
  /\ f.groups * f.advancers >= 2 /\ PowerOfTwo(f.groups * f.advancers)

Blank == [played |-> 0, points |-> 0, difference |-> 0, goals |-> 0]

BracketInit ==
  /\ format \in {f \in Formats : Valid(f)}
  /\ stage = "group" /\ round = 0
  /\ wave = <<>> /\ inputs = <<>> /\ outcomes = <<>>
  /\ reports = <<>> /\ record = [t \in Teams(format) |-> Blank]
  /\ brain = [t \in Teams(format) |-> 0] /\ h2h = <<>>
  /\ tables = <<>> /\ current = <<>> /\ losers = <<>>
  /\ podium = [champion |-> Nothing, second |-> Nothing, third |-> Nothing]

-----------------------------------------------------------------------------
(* The schedule *)

\* Pots: group g gets the teams at positions g, g + groups, ...
Group(g) == [i \in 1..format.size |-> g + (i - 1) * format.groups]

\* The circle has a bye when the group is odd.
Circle == format.size + (format.size % 2)
Rounds == (Circle - 1) * (IF format.double THEN 2 ELSE 1)

(* Mutant: the first place rotates with the others. *)
PlaceRotatesAll(k, r) == 1 + ((k - 1 + Circle - (r % Circle)) % Circle)

\* Who sits at place k (from 1) after r rotations: the first place stays.
Place(k, r) ==
  IF k = 1 THEN 1 ELSE 2 + ((k - 2 + (Circle - 1) - (r % (Circle - 1))) % (Circle - 1))

\* The two places that meet as pair i; with a bye it is not a pair of teams.
Pair(i, r) == <<Place(i, r), Place(Circle + 1 - i, r)>>
Paired(i, r) == Pair(i, r)[1] <= format.size /\ Pair(i, r)[2] <= format.size

\* The matches of a group in a round, and the pair that plays match i: at
\* most one pair is left out.
Half == format.size \div 2
PairOf(i, r) == IF \A j \in 1..i : Paired(j, r) THEN Pair(i, r) ELSE Pair(i + 1, r)

\* round_robin, round r (from 0) of group g; the second leg swaps the sides.
Fixture(g, r, i) ==
  LET leg == r % (Circle - 1)
      p == PairOf(i, leg)
      swap == (leg % 2 = 1) # (r >= Circle - 1)
  IN IF swap THEN <<Group(g)[p[2]], Group(g)[p[1]]>> ELSE <<Group(g)[p[1]], Group(g)[p[2]]>>

\* One round of every group is a wave.
GroupWave(r) ==
  [k \in 1..format.groups * Half |-> Fixture(1 + (k - 1) \div Half, r, 1 + ((k - 1) % Half))]

Pairs(teams) == [i \in 1..Len(teams) \div 2 |-> <<teams[2 * i - 1], teams[2 * i]>>]

-----------------------------------------------------------------------------
(* Waves *)

(* Mutant: all the rounds of the groups are one wave. *)
NextWaveAtOnce ==
  CASE stage = "group" -> FlattenSeq([r \in 1..Rounds |-> GroupWave(r - 1)])
    [] stage = "knockout" -> Pairs(current)
    [] stage = "third" -> <<losers>>

NextWave ==
  CASE stage = "group" -> GroupWave(round)
    [] stage = "knockout" -> Pairs(current)
    [] stage = "third" -> <<losers>>

Fail == stage' = "failed" /\ wave' = <<>> /\ inputs' = <<>> /\ outcomes' = <<>>

\* play_wave: the brains of the whole wave are cloned before its first match.
StartWave ==
  /\ stage \in {"group", "knockout", "third"} /\ wave = <<>>
  /\ stage = "group" => round < Rounds
  /\ stage = "knockout" => Len(current) > 1 /\ Len(current) % 2 = 0
  /\ wave' = NextWave
  /\ inputs' = [i \in DOMAIN wave' |-> <<brain[wave'[i][1]], brain[wave'[i][2]]>>]
  /\ outcomes' = [i \in DOMAIN wave' |-> Nothing]
  /\ UNCHANGED <<format, stage, round, books, tables, current, losers, podium>>

\* check_deadline before a wave, or a bracket that does not fold.
Stop ==
  /\ stage \in {"group", "knockout", "third"} /\ wave = <<>>
  /\ stage = "group" => round < Rounds
  /\ stage = "knockout" => Len(current) > 1
  /\ Fail
  /\ UNCHANGED <<format, round, books, tables, current, losers, podium>>

\* Chunks of MaxPar matches run one after the other, each joined as a whole.
Chunk(i) == (i - 1) \div MaxPar
Running(i) ==
  /\ outcomes[i] = Nothing
  /\ \A j \in DOMAIN wave : Chunk(j) < Chunk(i) => outcomes[j] \notin {Nothing, Error}

\* The thread of a match ends with a score, an error or a panic.
EndMatch(i) ==
  /\ Running(i)
  /\ \E o \in Scores \union {Error} : outcomes' = [outcomes EXCEPT ![i] = o]
  /\ UNCHANGED <<format, stage, round, wave, inputs, books, tables, current, losers, podium>>

Errors == {i \in DOMAIN wave : outcomes[i] = Error}

\* The chunk is joined and the first error fails the run.
WaveFails ==
  /\ Errors # {} /\ \A i \in DOMAIN wave : ~Running(i)
  /\ Fail
  /\ UNCHANGED <<format, round, books, tables, current, losers, podium>>

Played == wave # <<>> /\ \A i \in DOMAIN wave : outcomes[i] \notin {Nothing, Error}

PointsFor(scored, conceded) == IF scored > conceded THEN 3 ELSE IF scored = conceded THEN 1 ELSE 0

\* TeamRecord::record
Adds(rec, scored, conceded) ==
  [played |-> rec.played + 1, points |-> rec.points + PointsFor(scored, conceded),
   difference |-> rec.difference + scored - conceded, goals |-> rec.goals + scored]

\* commit_match: records and brains after match i.
CommitMatch(b, i) ==
  LET home == wave[i][1] away == wave[i][2]
  IN [record |-> [b.record EXCEPT ![home] = Adds(@, outcomes[i][1], outcomes[i][2]),
                                      ![away] = Adds(@, outcomes[i][2], outcomes[i][1])],
      brain |-> [b.brain EXCEPT ![home] = inputs[i][1] + 1, ![away] = inputs[i][2] + 1]]

\* The matches of a wave are committed in order; winners are given.
Committed ==
  LET after[i \in 0..Len(wave)] ==
        IF i = 0 THEN [record |-> record, brain |-> brain] ELSE CommitMatch(after[i - 1], i)
  IN after[Len(wave)]

Commit(winners) ==
  /\ record' = Committed.record /\ brain' = Committed.brain
  /\ reports' = reports \o
       [i \in 1..Len(wave) |->
          [stage |-> stage, round |-> round, home |-> wave[i][1], away |-> wave[i][2],
           score |-> outcomes[i], winner |-> winners[i]]]
  /\ wave' = <<>> /\ inputs' = <<>> /\ outcomes' = <<>>

\* Group fixtures are distinct pairs (home, away), so an entry is its score.
CommitGroupRound ==
  /\ stage = "group" /\ Played
  /\ Commit([i \in DOMAIN wave |-> Nothing])
  /\ h2h' = h2h \o [i \in DOMAIN wave |-> <<wave[i], outcomes[i]>>]
  /\ round' = round + 1
  /\ UNCHANGED <<format, stage, tables, current, losers, podium>>

-----------------------------------------------------------------------------
(* Group tables and the bracket *)

\* What a has over b by their own meetings: points, difference, goals.
Meetings(games, a, b) ==
  LET against(m) == IF m[1] = <<a, b>> THEN <<m[2]>>
                    ELSE IF m[1] = <<b, a>> THEN <<<<m[2][2], m[2][1]>>>> ELSE <<>>
      met == FlattenSeq([i \in DOMAIN games |-> against(games[i])])
      total(f(_)) == FoldLeft(LAMBDA sum, s : sum + f(s), 0, met)
  IN <<total(LAMBDA s : PointsFor(s[1], s[2]) - PointsFor(s[2], s[1])),
       total(LAMBDA s : s[1] - s[2])>>

\* The comparator of rank_group; the goals of the meetings are level with
\* their difference, so they decide nothing.
Before(a, b) ==
  LET met == Meetings(h2h, a, b)
      lead == <<record[a].points - record[b].points,
                record[a].difference - record[b].difference,
                record[a].goals - record[b].goals,
                met[1], met[2], Seeds[b] - Seeds[a], b - a>>
  IN \E k \in DOMAIN lead : lead[k] > 0 /\ \A j \in 1..k - 1 : lead[j] = 0

\* sort_by: the comparator may be cyclic, so any chain of neighbours in order.
Rankings(g) ==
  {s \in {[i \in 1..format.size |-> Group(g)[p[i]]] :
            p \in {q \in [1..format.size -> 1..format.size] : IsInjective(q)}} :
     \A i \in 1..format.size - 1 : Before(s[i], s[i + 1])}

(* Mutant: the winner of a group meets its own runner-up. *)
BracketSameGroup(ranked) ==
  IF format.advancers = 1 THEN [g \in 1..format.groups |-> ranked[g][1]]
  ELSE [i \in 1..2 * format.groups |-> ranked[(i + 1) \div 2][IF i % 2 = 1 THEN 1 ELSE 2]]

\* Each winner, and after him his opponent: the k-th of the other advancers,
\* who follow each other group by group.
Bracket(ranked) ==
  LET others == format.advancers - 1
      other(k) == ranked[1 + (k - 1) \div others][2 + ((k - 1) % others)]
      neighbour(g) == IF g % 2 = 1 THEN g + 1 ELSE g - 1
      meets(g) == IF others = 1 /\ format.groups % 2 = 0 THEN neighbour(g) ELSE g
  IN IF others = 0 THEN [g \in 1..format.groups |-> ranked[g][1]]
     ELSE [i \in 1..2 * format.groups |->
             IF i % 2 = 1 THEN ranked[(i + 1) \div 2][1] ELSE other(meets(i \div 2))]

\* group_tables_and_bracket, on the calling thread after the last round.
SeedBracket ==
  /\ stage = "group" /\ round = Rounds /\ wave = <<>>
  /\ tables' \in {s \in [1..format.groups -> UNION {Rankings(g) : g \in 1..format.groups}] :
                    \A g \in 1..format.groups : s[g] \in Rankings(g)}
  /\ current' = Bracket(tables')
  /\ stage' = "knockout" /\ round' = 0
  /\ UNCHANGED <<format, playing, books, losers, podium>>

-----------------------------------------------------------------------------
(* Knockout *)

\* knockout_winner: a level match goes to a shootout either may win.
Winners ==
  {w \in [DOMAIN wave -> Teams(format)] :
     \A i \in DOMAIN wave :
       /\ w[i] \in {wave[i][1], wave[i][2]}
       /\ outcomes[i][1] > outcomes[i][2] => w[i] = wave[i][1]
       /\ outcomes[i][1] < outcomes[i][2] => w[i] = wave[i][2]}

Loser(i, w) == IF w[i] = wave[i][1] THEN wave[i][2] ELSE wave[i][1]

KnockoutRound ==
  /\ stage = "knockout" /\ Played
  /\ \E w \in Winners :
       /\ Commit(w)
       /\ current' = w
       /\ losers' = IF Len(current) = 4 THEN [i \in DOMAIN wave |-> Loser(i, w)] ELSE losers
  /\ round' = round + 1
  /\ UNCHANGED <<format, stage, h2h, tables, podium>>

\* final_runner_up: whom the champion met in the last knockout report.
RunnerUp(champion) ==
  LET final == reports[Len(reports)]
  IN IF final.home = champion THEN final.away ELSE final.home

CrownChampion ==
  /\ stage = "knockout" /\ wave = <<>> /\ Len(current) = 1
  /\ podium' = [podium EXCEPT !.champion = current[1], !.second = RunnerUp(current[1])]
  /\ stage' = IF format.third /\ Len(losers) = 2 THEN "third" ELSE "done"
  /\ UNCHANGED <<format, round, playing, books, tables, current, losers>>

(* Mutant: the third place goes to the loser of its match. *)
ThirdPlaceToLoser ==
  /\ stage = "third" /\ Played
  /\ \E w \in Winners : Commit(w) /\ podium' = [podium EXCEPT !.third = Loser(1, w)]
  /\ stage' = "done"
  /\ UNCHANGED <<format, round, h2h, tables, current, losers>>

ThirdPlace ==
  /\ stage = "third" /\ Played
  /\ \E w \in Winners : Commit(w) /\ podium' = [podium EXCEPT !.third = w[1]]
  /\ stage' = "done"
  /\ UNCHANGED <<format, round, h2h, tables, current, losers>>

BracketNext ==
  \/ StartWave \/ Stop \/ (\E i \in DOMAIN wave : EndMatch(i)) \/ WaveFails
  \/ CommitGroupRound \/ SeedBracket \/ KnockoutRound \/ CrownChampion \/ ThirdPlace

BracketSpec == BracketInit /\ [][BracketNext]_bracketVars

-----------------------------------------------------------------------------
(* Properties *)

TeamRecord == [played : Nat, points : Nat, difference : Int, goals : Nat]
MatchReport ==
  [stage : {"group", "knockout", "third"}, round : Nat, home : Teams(format), away : Teams(format),
   score : Nat \X Nat, winner : Teams(format) \union {Nothing}]

BracketTypeOK ==
  /\ format \in Formats /\ Valid(format)
  /\ stage \in {"group", "knockout", "third", "done", "failed"} /\ round \in Nat
  /\ wave \in Seq(Teams(format) \X Teams(format))
  /\ inputs \in Seq(Nat \X Nat) /\ outcomes \in Seq(Scores \union {Nothing, Error})
  /\ reports \in Seq(MatchReport) /\ h2h \in Seq((Teams(format) \X Teams(format)) \X Scores)
  /\ record \in [Teams(format) -> TeamRecord] /\ brain \in [Teams(format) -> Nat]
  /\ tables \in {<<>>} \union [1..format.groups -> [1..format.size -> Teams(format)]]
  /\ current \in Seq(Teams(format)) /\ losers \in Seq(Teams(format))
  /\ podium \in [champion : Teams(format) \union {Nothing}, second : Teams(format) \union {Nothing},
                 third : Teams(format) \union {Nothing}]

Met(s) == {i \in DOMAIN reports : reports[i].stage = s}
HostedBy(a, b) == {i \in Met("group") : reports[i].home = a /\ reports[i].away = b}
SameGroup(a, b) == a % format.groups = b % format.groups

(* After the group stage every two teams of a group have met once, or, in a *)
(* double round robin, once at the ground of each, and no others have met.  *)
EveryPairMeets ==
  stage \in {"knockout", "third", "done"} =>
    \A a, b \in Teams(format) :
      a # b => LET home == Cardinality(HostedBy(a, b)) away == Cardinality(HostedBy(b, a))
               IN IF ~SameGroup(a, b) THEN home = 0
                  ELSE IF format.double THEN home = 1 ELSE home + away = 1

(* No learning is lost: between waves the brain of a team carries every     *)
(* match the team has played, although a wave clones its brains up front.   *)
BrainsCarryForward ==
  wave = <<>> => \A t \in Teams(format) : brain[t] = record[t].played

Advanced(t) == \E g \in 1..format.groups : \E i \in 1..format.advancers : tables[g][i] = t
Weaker(a, b) ==
  \/ record[a].points < record[b].points
  \/ record[a].points = record[b].points /\ record[a].difference < record[b].difference
  \/ record[a].points = record[b].points /\ record[a].difference = record[b].difference
       /\ record[a].goals < record[b].goals

(* With one or two advancers a group the knockout starts with each of them  *)
(* once, none of them has done worse in the group than a rival left behind, *)
(* and rivals of a group do not meet in its first round unless there is     *)
(* only one group.                                                          *)
BestAdvance ==
  stage = "knockout" /\ round = 0 /\ wave = <<>> /\ format.advancers <= 2 =>
    /\ IsInjective(current) /\ Range(current) = {t \in Teams(format) : Advanced(t)}
    /\ \A a, b \in Teams(format) :
         Advanced(a) /\ ~Advanced(b) /\ SameGroup(a, b) => ~Weaker(a, b)
    /\ format.groups > 1 =>
         \A i \in DOMAIN Pairs(current) : ~SameGroup(Pairs(current)[i][1], Pairs(current)[i][2])

Knocked(t) == {i \in Met("knockout") : t \in {reports[i].home, reports[i].away}}
Won(t, i) == reports[i].winner = t

Sides(i) == {reports[i].home, reports[i].away}
LostSemiFinal(t, finalists) ==
  \E i \in Knocked(t), final \in Met("knockout") :
    ~Won(t, i) /\ Sides(final) = finalists /\ reports[final].round = reports[i].round + 1

(* The champion has won every knockout match he played, the runner-up every *)
(* one but the last, against him; no team plays on after a defeat but for   *)
(* the third place, which goes to the winner of a match of two teams that   *)
(* lost in the round before the final.                                      *)
PodiumIsEarned ==
  LET c == podium.champion s == podium.second t == podium.third
  IN /\ stage = "done" =>
          /\ c # s /\ \A i \in Knocked(c) : Won(c, i)
          /\ \A i \in Knocked(s) : Won(s, i) \/ (Won(c, i) /\ i \in Knocked(c))
          /\ t # Nothing =>
               /\ t \notin {c, s} /\ Met("third") # {}
               /\ \A i \in Met("third") :
                    /\ t \in Sides(i) /\ Won(t, i) /\ Sides(i) \cap {c, s} = {}
                    /\ \A x \in Sides(i) : LostSemiFinal(x, {c, s})
     /\ \A i, j \in Met("knockout") :
          i < j => \A x \in Sides(j) : i \in Knocked(x) => Won(x, i)

(* tournament.rs:629: the comparator of a group is a total order, so it     *)
(* orders any two teams of a table as their places do.                      *)
RankingIsTotal ==
  stage = "knockout" /\ round = 0 =>
    \A g \in 1..format.groups : \A i, j \in 1..format.size :
      i < j => Before(tables[g][i], tables[g][j])

(* Every team a group table marks as advanced is in the bracket.            *)
AdvancersPlay ==
  stage = "knockout" /\ round = 0 => \A t \in Teams(format) : Advanced(t) => t \in Range(current)
=============================================================================
