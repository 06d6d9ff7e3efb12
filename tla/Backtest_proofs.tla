---------------------------- MODULE Backtest_proofs ----------------------------
(***************************************************************************)
(* What the replay guarantees for every archive, every course of the       *)
(* rounds, any strategies and limits.                                      *)
(*                                                                         *)
(* The rounds a replay reads say of each round what became of it           *)
(* (RoundsInv), whichever lines the archive holds.  A step settles what    *)
(* has become known and may place one bet.  The invariant (ReplayInv) says *)
(* of every simulation that its ledger holds exactly what was known at the *)
(* last decision, that its counters are what the ledger says, and that no  *)
(* day can end too far past its limit however the open bets end.  The last *)
(* part is about the processes that run the backtests.                     *)
(***************************************************************************)
EXTENDS WalkForward, Research, Processes, Pipeline_proofs

-----------------------------------------------------------------------------
\* The rounds.

\* Every shape a round may have.
AllShapes == Shapes \cup UNION {Range(w.shapes) : w \in Warmups}

LEMMA ShapesTyped == \A shape \in AllShapes : IsShape(shape)
<1>. SUFFICES ASSUME NEW shape \in AllShapes PROVE IsShape(shape)
  OBVIOUS
<1>1. CASE shape \in Shapes
  BY <1>1, ShapesAssumption
<1>2. ASSUME NEW w \in Warmups, shape \in Range(w.shapes)
      PROVE  IsShape(shape)
  <2>1. PICK n \in DOMAIN w.shapes : shape = w.shapes[n]
    BY <1>2 DEF Range
  <2>. QED  BY <2>1, WarmupsAssumption
<1>. QED  BY <1>1, <1>2 DEF AllShapes

\* The time t of a round of a market of the format f, as its archive has it.
TimeIn(f, t) == IF f = "PANCAKESWAP_V1" THEN Null ELSE t

\* What a row says of the round `epoch`, given what became of it.
Says(f, r, epoch, shape) ==
  /\ r.epoch = epoch
  /\ r.startTime = TimeIn(f, epoch * Interval)
  /\ r.lockTime = TimeIn(f, (epoch + 1) * Interval)
  /\ r.closeTime = TimeIn(f, (epoch + 2) * Interval)
  /\ r.lockPrice = OrNull(shape.lockPrice)
  /\ r.bullAmount = shape.bull /\ r.bearAmount = shape.bear
  /\ r.outcome = IF ~shape.called THEN "CANCELLED"
                 ELSE IF shape.closePrice > shape.lockPrice THEN "BULL"
                 ELSE IF shape.closePrice < shape.lockPrice THEN "BEAR" ELSE "TIE"

\* Later times are positive and apart.
LEMMA TimesTyped ==
  ASSUME NEW epoch \in Nat \ {0}
  PROVE  /\ epoch * Interval \in Nat \ {0} /\ (epoch + 1) * Interval \in Nat \ {0}
         /\ (epoch + 2) * Interval \in Nat \ {0}
         /\ (epoch + 1) * Interval = epoch * Interval + Interval
         /\ (epoch + 2) * Interval = epoch * Interval + 2 * Interval
  BY TimesAssumption

\* The row of a final round, read from the chain.
LEMMA FinalSays ==
  ASSUME NEW epoch \in Nat \ {0}, NEW shape, IsShape(shape)
  PROVE  Says("PANCAKESWAP_V2", FinalRound(epoch, shape), epoch, shape)
<1>. DEFINE t == Tuple(epoch, shape)
            r == roundFromV2Tuple(t)
            start == epoch * Interval
            lock == (epoch + 1) * Interval
            close == (epoch + 2) * Interval
            Columns == {"epoch", "startTime", "lockTime", "closeTime", "lockPrice", "closePrice",
                        "lockOracleId", "oracleCalled", "bullAmount", "bearAmount", "outcome"}
<1>1. start \in Nat \ {0} /\ lock \in Nat \ {0} /\ close \in Nat \ {0}
  BY TimesTyped
<1>2. /\ t.epoch = epoch /\ t.startTime = start /\ t.lockTime = lock
      /\ t.closeTime = close /\ t.lockPrice = shape.lockPrice
      /\ t.closePrice = (IF shape.called THEN shape.closePrice ELSE 0)
      /\ t.bullAmount = shape.bull /\ t.bearAmount = shape.bear /\ t.lockOracleId = epoch
      /\ DOMAIN t = Columns
  BY DEF Tuple
<1>3. t.oracleCalled = shape.called
  BY Zenon DEF Tuple
<1>. HIDE DEF t
<1>4. /\ r.epoch = epoch /\ r.startTime = OrNull(start) /\ r.lockTime = OrNull(lock)
      /\ r.closeTime = OrNull(close) /\ r.lockPrice = OrNull(shape.lockPrice)
  BY <1>2, Zenon DEF roundFromV2Tuple
<1>5. /\ r.closePrice = OrNull(t.closePrice) /\ r.oracleCalled = shape.called
      /\ r.bullAmount = shape.bull /\ r.bearAmount = shape.bear /\ DOMAIN r = Columns
  BY <1>2, <1>3, Zenon DEF roundFromV2Tuple
<1>. HIDE DEF r
<1>6. r.startTime = start /\ r.lockTime = lock /\ r.closeTime = close
  BY <1>1, <1>4 DEF OrNull
<1>. DEFINE f == FinalRound(epoch, shape)
            afterwards == close + BufferSeconds + 1
            status == deriveRoundStatus(r, afterwards, BufferSeconds)
<1>7. f = [r EXCEPT !.outcome = deriveOutcome(r, status)]
  BY DEF FinalRound, r, t
<1>8. status = IF shape.called THEN "ENDED" ELSE "CANCELLED"
  <2>1. CancelledAt(r, afterwards, BufferSeconds)
    BY <1>1, <1>6, MarketAssumption, NullAssumption DEF CancelledAt
  <2>2. r.oracleCalled = shape.called /\ shape.called \in BOOLEAN
    BY <1>5 DEF IsShape
  <2>. QED  BY <2>1, <2>2, Zenon DEF deriveRoundStatus
<1>. HIDE DEF status
<1>9. f.outcome = deriveOutcome(r, status) /\ \A c \in Columns \ {"outcome"} : f[c] = r[c]
  BY <1>5, <1>7
<1>10. f.epoch = r.epoch /\ f.startTime = r.startTime /\ f.lockTime = r.lockTime /\ f.closeTime = r.closeTime
       /\ f.lockPrice = r.lockPrice /\ f.bullAmount = r.bullAmount /\ f.bearAmount = r.bearAmount
  BY <1>9
<1>. HIDE DEF f
<1>11. r.closePrice = OrNull(t.closePrice) /\ t.closePrice = IF shape.called THEN shape.closePrice ELSE 0
  BY <1>2, <1>5
<1>12. f.outcome = IF ~shape.called THEN "CANCELLED"
                   ELSE IF shape.closePrice > shape.lockPrice THEN "BULL"
                   ELSE IF shape.closePrice < shape.lockPrice THEN "BEAR" ELSE "TIE"
  BY <1>4, <1>8, <1>9, <1>11, NullAssumption DEF deriveOutcome, OrNull, OrZero, IsShape
<1>. QED  BY <1>4, <1>5, <1>6, <1>10, <1>12 DEF Says, TimeIn, f

\* The row of the line an archive should hold of a round.
LEMMA RowSays ==
  ASSUME NEW f \in Formats, NEW epoch \in Nat \ {0}, NEW shape, IsShape(shape)
  PROVE  Says(f, parseRow(f, Line(f, epoch, shape)), epoch, shape)
<1>. DEFINE line == Line(f, epoch, shape)
            start == epoch * Interval
            lock == (epoch + 1) * Interval
            close == (epoch + 2) * Interval
<1>1. start \in Nat \ {0} /\ lock \in Nat \ {0} /\ close \in Nat \ {0}
  BY TimesTyped
<1>2. /\ line.epoch = epoch /\ line.start = start /\ line.lock = lock /\ line.close = close
      /\ line.lockPrice = shape.lockPrice /\ line.bull = shape.bull /\ line.bear = shape.bear
      /\ line.closePrice = IF shape.called THEN shape.closePrice ELSE 0
  BY DEF Line, Tuple
<1>3. line.oracleCalled = shape.called /\ line.completed = shape.called /\ line.cancelled = ~shape.called
  BY Zenon DEF Line, Tuple
<1>. HIDE DEF line
<1>. DEFINE Time(t) == IF f = "PANCAKESWAP_V1" THEN Null ELSE OrNull(t)
            called == IF f = "PRDT" THEN line.completed ELSE line.oracleCalled
            cancelled == IF f = "PRDT" THEN line.cancelled ELSE ~line.oracleCalled
            oracle == IF f = "PANCAKESWAP_V2" THEN OrNull(line.lockOracleId) ELSE Null
            r == [epoch |-> line.epoch,
                  startTime |-> Time(line.start), lockTime |-> Time(line.lock), closeTime |-> Time(line.close),
                  lockPrice |-> OrNull(line.lockPrice), closePrice |-> OrNull(line.closePrice),
                  lockOracleId |-> oracle,
                  oracleCalled |-> called, bullAmount |-> line.bull, bearAmount |-> line.bear, outcome |-> Null]
            row == parseRow(f, line)
            status == IF cancelled THEN "CANCELLED" ELSE "ENDED"
<1>4. row = [r EXCEPT !.outcome = deriveOutcome(r, status)]
  BY DEF parseRow
<1>5. cancelled = ~shape.called /\ shape.called \in BOOLEAN
  BY <1>3, Zenon DEF IsShape
<1>6. status = IF shape.called THEN "ENDED" ELSE "CANCELLED"
  BY <1>5, Zenon
<1>7. /\ r.epoch = epoch /\ r.startTime = Time(start) /\ r.lockTime = Time(lock) /\ r.closeTime = Time(close)
      /\ r.lockPrice = OrNull(shape.lockPrice) /\ r.closePrice = OrNull(line.closePrice)
      /\ r.bullAmount = shape.bull /\ r.bearAmount = shape.bear
  BY <1>2, Zenon
<1>8. "outcome" \in DOMAIN r /\ {"epoch", "startTime", "lockTime", "closeTime", "lockPrice", "bullAmount", "bearAmount"} \subseteq DOMAIN r
  BY Zenon
<1>. HIDE DEF r, status
<1>9. row.outcome = deriveOutcome(r, status)
  BY <1>4, <1>8, Zenon
<1>10. /\ row.epoch = r.epoch /\ row.startTime = r.startTime /\ row.lockTime = r.lockTime
       /\ row.closeTime = r.closeTime /\ row.lockPrice = r.lockPrice
       /\ row.bullAmount = r.bullAmount /\ row.bearAmount = r.bearAmount
  BY <1>4, <1>8
<1>. HIDE DEF row
<1>11. Time(start) = TimeIn(f, start) /\ Time(lock) = TimeIn(f, lock) /\ Time(close) = TimeIn(f, close)
  BY <1>1 DEF TimeIn, OrNull
<1>12. row.outcome = IF ~shape.called THEN "CANCELLED"
                     ELSE IF shape.closePrice > shape.lockPrice THEN "BULL"
                     ELSE IF shape.closePrice < shape.lockPrice THEN "BEAR" ELSE "TIE"
  BY <1>2, <1>5, <1>6, <1>7, <1>9, NullAssumption DEF deriveOutcome, OrNull, OrZero, IsShape
<1>. QED  BY <1>7, <1>10, <1>11, <1>12 DEF Says, row, line

\* A line an import accepts is the one the archive should hold of its round.
LEMMA AcceptedSays ==
  ASSUME NEW f \in Formats, NEW N \in SUBSET (Nat \ {0}), NEW become,
         \A n \in N : IsShape(become[n]),
         NEW line \in Accepted(f, UNION {Range(Lines(f, n, become[n])) : n \in N})
  PROVE  line.epoch \in N /\ Says(f, parseRow(f, line), line.epoch, become[line.epoch])
<1>. DEFINE lines == UNION {Range(Lines(f, n, become[n])) : n \in N}
            usable == {l \in lines : Usable(f, l)}
<1>1. /\ line \in lines /\ Usable(f, line)
      /\ \A other \in lines : Usable(f, other) /\ other.epoch = line.epoch => other = line
  BY DEF Accepted
<1>2. PICK n \in N : line \in Range(Lines(f, n, become[n]))
  BY <1>1
<1>3. Range(Lines(f, n, become[n])) \subseteq lines
  OBVIOUS
<1>. HIDE DEF lines
<1>. DEFINE shape == become[n]
            plain == Line(f, n, shape)
            padded == [plain EXCEPT !.columns = @ + 1, !.lastEmpty = TRUE]
            wrong == [plain EXCEPT !.closePrice = @ + 5]
            broken == [plain EXCEPT !.typed = FALSE]
            begun == [plain EXCEPT !.start = 0, !.completed = FALSE, !.cancelled = FALSE]
            Columns == {"columns", "lastEmpty", "typed", "epoch", "start", "lock", "close", "lockPrice", "closePrice",
                        "lockOracleId", "total", "bull", "bear", "oracleCalled", "completed", "cancelled"}
<1>4. IsShape(shape) /\ shape.closePrice \in Nat /\ n \in Nat
  BY DEF IsShape
<1>. DEFINE price == IF shape.called THEN shape.closePrice ELSE 0
<1>5. plain.epoch = n /\ plain.closePrice = price /\ DOMAIN plain = Columns
  BY Zenon DEF Line, Tuple
<1>6. Lines(f, n, shape) = CASE shape.lines = "one" -> <<plain>>
                             [] shape.lines = "twice" -> <<padded, padded>>
                             [] shape.lines = "conflicting" -> <<wrong, plain>>
                             [] shape.lines = "damaged" -> <<broken>>
                             [] shape.lines = "unfinished" -> <<begun>>
  BY Zenon DEF Lines
<1>7. Says(f, parseRow(f, plain), n, shape)
  BY <1>4, RowSays
<1>. HIDE DEF plain
<1>8. /\ padded.epoch = n /\ wrong.epoch = n /\ broken.epoch = n /\ begun.epoch = n
      /\ broken.typed = FALSE /\ begun.start = 0
      /\ begun.completed = FALSE /\ begun.cancelled = FALSE /\ wrong.closePrice = plain.closePrice + 5
  BY <1>5, Zenon
<1>9. shape.lines \in {"one", "twice", "conflicting", "damaged", "unfinished"}
  BY <1>4 DEF IsShape
<1>. HIDE DEF shape
<1>10. /\ shape.lines = "one" => Range(Lines(f, n, shape)) = {plain}
       /\ shape.lines = "twice" => Range(Lines(f, n, shape)) = {padded}
       /\ shape.lines = "conflicting" => Range(Lines(f, n, shape)) = {wrong, plain}
       /\ shape.lines = "damaged" => Range(Lines(f, n, shape)) = {broken}
       /\ shape.lines = "unfinished" => Range(Lines(f, n, shape)) = {begun}
  <2>. HIDE DEF padded, wrong, broken, begun
  <2>. QED  BY <1>6, <1>9 DEF Range
<1>11. line \in Range(Lines(f, n, shape)) /\ Range(Lines(f, n, shape)) \subseteq lines
  BY <1>2, <1>3, Zenon DEF shape
<1>12. parseRow(f, padded) = parseRow(f, plain)
  <2>. DEFINE Kept == {"epoch", "start", "lock", "close", "lockPrice", "closePrice", "lockOracleId",
                       "bull", "bear", "oracleCalled", "completed", "cancelled"}
  <2>1. /\ padded.epoch = plain.epoch /\ padded.start = plain.start /\ padded.lock = plain.lock
        /\ padded.close = plain.close /\ padded.lockPrice = plain.lockPrice
        /\ padded.closePrice = plain.closePrice /\ padded.lockOracleId = plain.lockOracleId
    BY <1>5, Zenon
  <2>2. /\ padded.bull = plain.bull /\ padded.bear = plain.bear
        /\ padded.oracleCalled = plain.oracleCalled /\ padded.completed = plain.completed
        /\ padded.cancelled = plain.cancelled
    BY <1>5, Zenon
  <2>. HIDE DEF padded
  <2>. QED  BY <2>1, <2>2, Zenon DEF parseRow
<1>13. line \in {plain, padded} => line.epoch = n /\ parseRow(f, line) = parseRow(f, plain)
  BY <1>5, <1>8, <1>12, Zenon
<1>14. ~Usable(f, broken)
  BY <1>8, Zenon DEF Usable, WellFormed
<1>15. ~Usable(f, begun)
  <2>. HIDE DEF begun
  <2>. QED  BY <1>8 DEF Usable, Skipped, Formats, EXPECTED_COLUMNS
<1>16. (Usable(f, wrong) <=> Usable(f, plain)) /\ wrong # plain
  <2>1. /\ wrong.columns = plain.columns /\ wrong.lastEmpty = plain.lastEmpty /\ wrong.typed = plain.typed
        /\ wrong.epoch = plain.epoch /\ wrong.start = plain.start /\ wrong.total = plain.total
        /\ wrong.bull = plain.bull
    BY <1>5, Zenon
  <2>2. wrong.bear = plain.bear /\ wrong.completed = plain.completed /\ wrong.cancelled = plain.cancelled
    BY <1>5, Zenon
  <2>3. wrong # plain
    <3>1. plain.closePrice \in Nat
      BY <1>4, <1>5
    <3>2. plain.closePrice + 5 # plain.closePrice
      BY <3>1
    <3>. QED  BY <3>2, <1>8, Zenon
  <2>. HIDE DEF wrong
  <2>. QED  BY <2>1, <2>2, <2>3, Zenon DEF Usable, WellFormed, Skipped
<1>. HIDE DEF padded, wrong, broken, begun
<1>17. CASE shape.lines = "conflicting"
  <2>1. wrong \in lines /\ plain \in lines /\ line \in {wrong, plain}
    BY <1>10, <1>11, <1>17
  <2>2. line.epoch = n
    BY <2>1, <1>5, <1>8
  <2>3. Usable(f, wrong) /\ Usable(f, plain)
    BY <2>1, <1>1, <1>16
  <2>4. \A other \in {wrong, plain} : other = line
    BY <2>1, <2>2, <2>3, <1>1, <1>5, <1>8
  <2>. QED  BY <2>4, <1>16
<1>18. CASE shape.lines = "damaged"
  BY <1>1, <1>10, <1>11, <1>14, <1>18
<1>19. CASE shape.lines = "unfinished"
  BY <1>1, <1>10, <1>11, <1>15, <1>19
<1>20. shape.lines \in {"one", "twice"} => line \in {plain, padded}
  BY <1>10, <1>11
<1>21. CASE line \in {plain, padded}
  BY <1>7, <1>13, <1>21, Zenon DEF shape
<1>. QED  BY <1>9, <1>17, <1>18, <1>19, <1>20, <1>21

\* A row as the replay reads it: what it says of the times of a round follows from its epoch.
IsRound(f, r) ==
  /\ r.epoch \in Nat \ {0}
  /\ r.startTime = TimeIn(f, r.epoch * Interval)
  /\ r.lockTime = TimeIn(f, (r.epoch + 1) * Interval)
  /\ r.closeTime = TimeIn(f, (r.epoch + 2) * Interval)
  /\ r.lockPrice \in (Nat \ {0}) \cup {Null}
  /\ r.bullAmount \in Nat /\ r.bearAmount \in Nat /\ r.outcome \in Outcomes

\* A list of them is in the order of the epochs.
IsRounds(f, all) ==
  /\ all \in Seq(Range(all))
  /\ \A n \in DOMAIN all : IsRound(f, all[n])
  /\ \A j, k \in DOMAIN all : j < k => all[j].epoch < all[k].epoch

\* It says of its rounds what became of them.
SaysOf(f, all, become) ==
  \A n \in DOMAIN all : /\ all[n].epoch \in DOMAIN become
                        /\ Says(f, all[n], all[n].epoch, become[all[n].epoch])

LEMMA SaysTyped ==
  ASSUME NEW f, NEW r, NEW epoch \in Nat \ {0}, NEW shape, IsShape(shape), Says(f, r, epoch, shape)
  PROVE  IsRound(f, r)
<1>1. shape.lockPrice \in Nat /\ shape.closePrice \in Nat /\ shape.bull \in Nat /\ shape.bear \in Nat
  BY DEF IsShape
<1>2. r.outcome \in Outcomes
  BY Zenon DEF Says, Outcomes, Directions
<1>3. r.lockPrice \in (Nat \ {0}) \cup {Null}
  BY <1>1 DEF Says, OrNull
<1>. QED  BY <1>1, <1>2, <1>3 DEF Says, IsRound

LEMMA IsSequence ==
  ASSUME NEW S, NEW s \in Seq(S)
  PROVE  s \in Seq(Range(s)) /\ Len(s) \in Nat /\ DOMAIN s = 1 .. Len(s)
<1>1. \A n \in DOMAIN s : s[n] \in Range(s)
  BY DEF Range
<1>. QED  BY <1>1

\* The rounds an import stores are in order, and each is read from what the archive should hold of it.
LEMMA ImportedSays ==
  ASSUME NEW f \in Formats, NEW N \in SUBSET (Nat \ {0}), IsFiniteSet(N), NEW become, N \subseteq DOMAIN become,
         \A n \in N : IsShape(become[n])
  PROVE  LET all == Imported(f, UNION {Range(Lines(f, n, become[n])) : n \in N}) IN
         /\ IsRounds(f, all) /\ SaysOf(f, all, become)
         /\ \A n \in DOMAIN all : all[n].epoch \in N
<1>. DEFINE lines == UNION {Range(Lines(f, n, become[n])) : n \in N}
            accepted == Accepted(f, lines)
            E == {line.epoch : line \in accepted}
            epochs == Ascending(E)
            all == Imported(f, lines)
<1>1. \A line \in accepted : line.epoch \in N /\ Says(f, parseRow(f, line), line.epoch, become[line.epoch])
  BY AcceptedSays
<1>. HIDE DEF lines
<1>2. all = [n \in DOMAIN epochs |-> parseRow(f, LineOf(accepted, epochs[n]))]
  BY DEF Imported
<1>3. E \in SUBSET Int /\ E \subseteq N /\ IsFiniteSet(E)
  <2>1. E \subseteq N
    BY <1>1
  <2>. HIDE DEF E
  <2>2. E \in SUBSET Int
    BY <2>1
  <2>3. IsFiniteSet(E)
    BY <2>1, FS_Subset
  <2>. QED  BY <2>1, <2>2, <2>3
<1>. HIDE DEF accepted
<1>4. ASSUME NEW e \in E
      PROVE  LET line == LineOf(accepted, e) IN line \in accepted /\ line.epoch = e
  BY DEF LineOf
<1>. HIDE DEF E
<1>5. /\ Cardinality(E) \in Nat /\ DOMAIN epochs = 1 .. Cardinality(E)
      /\ \A n \in DOMAIN epochs : epochs[n] \in E
      /\ \A j, k \in DOMAIN epochs : j < k => epochs[j] < epochs[k]
  BY <1>3, AscendingSorts
<1>. HIDE DEF epochs, all
<1>6. ASSUME NEW n \in DOMAIN all
      PROVE  /\ all[n].epoch = epochs[n] /\ epochs[n] \in N
             /\ Says(f, all[n], epochs[n], become[epochs[n]])
  <2>. DEFINE line == LineOf(accepted, epochs[n])
  <2>1. epochs[n] \in E /\ all[n] = parseRow(f, line)
    BY <1>2, <1>5
  <2>2. line \in accepted /\ line.epoch = epochs[n]
    BY <1>4, <2>1
  <2>. HIDE DEF line
  <2>3. epochs[n] \in N /\ Says(f, all[n], epochs[n], become[epochs[n]])
    BY <1>1, <2>1, <2>2
  <2>. QED  BY <2>3 DEF Says
<1>7. SaysOf(f, all, become) /\ \A n \in DOMAIN all : all[n].epoch \in N
  BY <1>6 DEF SaysOf
<1>8. \A n \in DOMAIN all : IsRound(f, all[n])
  <2>. SUFFICES ASSUME NEW n \in DOMAIN all PROVE IsRound(f, all[n])
    OBVIOUS
  <2>1. epochs[n] \in Nat \ {0} /\ IsShape(become[epochs[n]])
    BY <1>6
  <2>. QED  BY <1>6, <2>1, SaysTyped
<1>9. DOMAIN all = 1 .. Cardinality(E) /\ all \in Seq(Range(all))
  <2>1. DOMAIN all = 1 .. Cardinality(E) /\ all = [n \in DOMAIN all |-> all[n]]
    BY <1>2, <1>5
  <2>2. \A n \in DOMAIN all : all[n] \in Range(all)
    BY DEF Range
  <2>. QED  BY <1>5, <2>1, <2>2
<1>10. \A j, k \in DOMAIN all : j < k => all[j].epoch < all[k].epoch
  BY <1>5, <1>6, <1>9
<1>. QED  BY <1>7, <1>8, <1>9, <1>10 DEF IsRounds, all, lines

\* Of one round there is at most one row.
LEMMA OneImported ==
  ASSUME NEW f \in Formats, NEW epoch \in Nat \ {0}, NEW shape, IsShape(shape)
  PROVE  LET new == Imported(f, Range(Lines(f, epoch, shape))) IN
         \/ new = << >>
         \/ \E r : new = <<r>> /\ IsRound(f, r) /\ r.epoch = epoch /\ Says(f, r, epoch, shape)
<1>. DEFINE N == {epoch}
            become == [n \in N |-> shape]
            new == Imported(f, Range(Lines(f, epoch, shape)))
<1>1. UNION {Range(Lines(f, n, become[n])) : n \in N} = Range(Lines(f, epoch, shape))
  OBVIOUS
<1>2. IsFiniteSet(N)
  BY FS_Singleton
<1>3. N \in SUBSET (Nat \ {0}) /\ N \subseteq DOMAIN become /\ (\A n \in N : IsShape(become[n])) /\ become[epoch] = shape
  OBVIOUS
<1>. HIDE DEF N, become
<1>4. IsRounds(f, new) /\ SaysOf(f, new, become) /\ \A n \in DOMAIN new : new[n].epoch \in N
  <2>1. LET all == Imported(f, UNION {Range(Lines(f, n, become[n])) : n \in N}) IN
         /\ IsRounds(f, all) /\ SaysOf(f, all, become)
         /\ \A n \in DOMAIN all : all[n].epoch \in N
    BY <1>2, <1>3, ImportedSays
  <2>. QED  BY <1>1, <2>1
<1>. HIDE DEF new
<1>5. \A n \in DOMAIN new : new[n].epoch = epoch /\ IsRound(f, new[n]) /\ Says(f, new[n], epoch, shape)
  BY <1>3, <1>4 DEF SaysOf, IsRounds, N
<1>6. new \in Seq(Range(new)) /\ \A j, k \in DOMAIN new : ~(j < k)
  <2>1. \A j, k \in DOMAIN new : j < k => epoch < epoch
    BY <1>4, <1>5 DEF IsRounds
  <2>. QED  BY <1>4, <2>1 DEF IsRounds
<1>7. Len(new) \in Nat /\ DOMAIN new = 1 .. Len(new)
  BY <1>6
<1>8. Len(new) <= 1
  <2>. SUFFICES ASSUME Len(new) >= 2 PROVE FALSE
    BY <1>7
  <2>1. 1 \in DOMAIN new /\ 2 \in DOMAIN new
    BY <1>7
  <2>. QED  BY <2>1, <1>6
<1>9. CASE Len(new) = 0
  <2>1. new = << >>
    BY <1>6, <1>9
  <2>. QED  BY <2>1 DEF new
<1>10. CASE Len(new) = 1
  <2>1. new = <<new[1]>> /\ 1 \in DOMAIN new
    BY <1>6, <1>7, <1>10
  <2>. QED  BY <2>1, <1>5 DEF new
<1>. QED  BY <1>7, <1>8, <1>9, <1>10

\* A list of rounds with one more.
LEMMA AppendedRounds ==
  ASSUME NEW f, NEW all, IsRounds(f, all), NEW r, IsRound(f, r), \A n \in DOMAIN all : all[n].epoch < r.epoch
  PROVE  IsRounds(f, Append(all, r))
<1>. DEFINE more == Append(all, r)
            S == Range(all) \cup {r}
<1>1. all \in Seq(S) /\ r \in S
  BY DEF IsRounds
<1>. HIDE DEF S
<1>2. more \in Seq(S) /\ Len(more) = Len(all) + 1 /\ Len(all) \in Nat /\ DOMAIN all = 1 .. Len(all)
      /\ DOMAIN more = 1 .. Len(all) + 1
      /\ more[Len(all) + 1] = r /\ \A n \in DOMAIN all : more[n] = all[n]
  BY <1>1
<1>. HIDE DEF more
<1>3. more \in Seq(Range(more))
  BY <1>2, IsSequence
<1>4. \A n \in DOMAIN more : IsRound(f, more[n])
  BY <1>2 DEF IsRounds
<1>5. ASSUME NEW j \in DOMAIN more, NEW k \in DOMAIN more, j < k
      PROVE  more[j].epoch < more[k].epoch
  <2>1. j \in DOMAIN all
    BY <1>2, <1>5
  <2>2. CASE k \in DOMAIN all
    BY <1>2, <1>5, <2>1, <2>2 DEF IsRounds
  <2>3. CASE k = Len(all) + 1
    BY <1>2, <1>5, <2>1, <2>3
  <2>. QED  BY <1>2, <2>2, <2>3
<1>. QED  BY <1>3, <1>4, <1>5 DEF IsRounds, more

\* A part of a list of rounds.
LEMMA PartOfRounds ==
  ASSUME NEW f, NEW all, IsRounds(f, all), NEW m \in Nat \ {0}, NEW n \in Nat, n <= Len(all)
  PROVE  IsRounds(f, SubSeq(all, m, n))
<1>. DEFINE part == SubSeq(all, m, n)
<1>1. all \in Seq(Range(all)) /\ Len(all) \in Nat /\ DOMAIN all = 1 .. Len(all)
  BY DEF IsRounds
<1>2. part \in Seq(Range(all)) /\ \A j \in DOMAIN part : j + m - 1 \in DOMAIN all /\ part[j] = all[j + m - 1]
  <2>. DEFINE S == Range(all)
  <2>. HIDE DEF S
  <2>1. all \in Seq(S)
    BY <1>1 DEF S
  <2>2. \A j \in m .. n : all[j] \in S
    BY <1>1, <2>1
  <2>3. DOMAIN part = 1 .. (IF n < m - 1 THEN 0 ELSE n - m + 1) /\ \A j \in DOMAIN part : part[j] = all[j + m - 1]
    BY <1>1
  <2>4. part \in Seq(S)
    BY <2>1, <2>2
  <2>. QED  BY <1>1, <2>3, <2>4 DEF S
<1>. HIDE DEF part
<1>3. part \in Seq(Range(part)) /\ DOMAIN part = 1 .. Len(part) /\ Len(part) \in Nat
  BY <1>2, IsSequence
<1>4. \A j \in DOMAIN part : IsRound(f, part[j])
  BY <1>2 DEF IsRounds
<1>5. ASSUME NEW j \in DOMAIN part, NEW k \in DOMAIN part, j < k
      PROVE  part[j].epoch < part[k].epoch
  <2>1. j + m - 1 < k + m - 1
    BY <1>3, <1>5
  <2>. QED  BY <1>2, <2>1 DEF IsRounds
<1>. QED  BY <1>3, <1>4, <1>5 DEF IsRounds, part

-----------------------------------------------------------------------------
\* The rounds of a replay.

RoundsInv ==
  /\ market \in Formats /\ past \in Seq(AllShapes)
  /\ IsRounds(market, rounds) /\ SaysOf(market, rounds, past)

LEMMA RoundsInit == Init => RoundsInv
<1>. SUFFICES ASSUME Init PROVE RoundsInv
  OBVIOUS
<1>1. PICK w \in Warmups : /\ market = w.format /\ past = w.shapes
                           /\ rounds = Imported(market, UNION {Range(Lines(market, n, past[n])) : n \in DOMAIN past})
  BY DEF Init
<1>2. market \in Formats /\ past \in Seq(Range(past)) /\ \A n \in DOMAIN past : IsShape(past[n])
  BY <1>1, WarmupsAssumption
<1>3. Range(past) \subseteq AllShapes
  BY <1>1 DEF AllShapes
<1>4. past \in Seq(AllShapes)
  BY <1>2, <1>3
<1>5. DOMAIN past = 1 .. Len(past) /\ Len(past) \in Nat
  BY <1>2
<1>6. DOMAIN past \in SUBSET (Nat \ {0}) /\ IsFiniteSet(DOMAIN past)
  <2>1. IsFiniteSet(1 .. Len(past))
    BY <1>5, FS_Interval
  <2>2. 1 .. Len(past) \in SUBSET (Nat \ {0})
    BY <1>5
  <2>. QED  BY <1>5, <2>1, <2>2, Zenon
<1>. DEFINE N == DOMAIN past
<1>. HIDE DEF N
<1>7. IsRounds(market, rounds) /\ SaysOf(market, rounds, past)
  <2>1. N \in SUBSET (Nat \ {0}) /\ IsFiniteSet(N) /\ N \subseteq DOMAIN past /\ (\A n \in N : IsShape(past[n]))
        /\ rounds = Imported(market, UNION {Range(Lines(market, n, past[n])) : n \in N})
    BY <1>1, <1>2, <1>6 DEF N
  <2>. QED  BY <1>2, <2>1, ImportedSays
<1>. QED  BY <1>2, <1>4, <1>7 DEF RoundsInv

\* The list a step replays: what was stored, and perhaps one round more.
AllAfter(shape) == rounds \o Imported(market, Range(Lines(market, Len(past) + 1, shape)))

LEMMA RoundsStep ==
  ASSUME RoundsInv, NEW shape \in Shapes
  PROVE  LET all == AllAfter(shape) IN
         /\ IsRounds(market, all) /\ SaysOf(market, all, Append(past, shape))
         /\ Append(past, shape) \in Seq(AllShapes) /\ Len(past) \in Nat
         /\ \/ all = rounds
            \/ \E r : /\ all = Append(rounds, r) /\ r.epoch = Len(past) + 1
                      /\ \A n \in DOMAIN rounds : rounds[n].epoch < r.epoch
<1>. DEFINE all == AllAfter(shape)
            epoch == Len(past) + 1
            new == Imported(market, Range(Lines(market, epoch, shape)))
            later == Append(past, shape)
<1>1. IsShape(shape) /\ shape \in AllShapes
  BY ShapesTyped DEF AllShapes
<1>2. /\ Len(past) \in Nat /\ DOMAIN past = 1 .. Len(past) /\ epoch \in Nat \ {0}
      /\ later \in Seq(AllShapes) /\ DOMAIN later = 1 .. epoch /\ later[epoch] = shape
      /\ \A n \in DOMAIN past : later[n] = past[n]
  BY <1>1 DEF RoundsInv
<1>3. /\ rounds \in Seq(Range(rounds)) /\ IsRounds(market, rounds) /\ market \in Formats
      /\ \A n \in DOMAIN rounds : /\ rounds[n].epoch \in DOMAIN past
                                  /\ Says(market, rounds[n], rounds[n].epoch, past[rounds[n].epoch])
  BY DEF RoundsInv, IsRounds, SaysOf
<1>4. \/ new = << >>
      \/ \E r : new = <<r>> /\ IsRound(market, r) /\ r.epoch = epoch /\ Says(market, r, epoch, shape)
  BY <1>1, <1>2, <1>3, OneImported
<1>5. all = rounds \o new
  BY DEF AllAfter
<1>. HIDE DEF new, later, all, epoch
<1>6. SaysOf(market, rounds, later) /\ \A n \in DOMAIN rounds : rounds[n].epoch < epoch
  <2>. SUFFICES ASSUME NEW n \in DOMAIN rounds
                PROVE  rounds[n].epoch \in DOMAIN later /\ rounds[n].epoch < epoch
                       /\ Says(market, rounds[n], rounds[n].epoch, later[rounds[n].epoch])
    BY DEF SaysOf
  <2>1. rounds[n].epoch \in DOMAIN past
    BY <1>3
  <2>2. later[rounds[n].epoch] = past[rounds[n].epoch]
    BY <1>2, <2>1
  <2>3. rounds[n].epoch \in DOMAIN later /\ rounds[n].epoch < epoch
    BY <1>2, <2>1 DEF epoch
  <2>. QED  BY <1>3, <2>2, <2>3
<1>7. CASE new = << >>
  <2>1. all = rounds
    BY <1>3, <1>5, <1>7
  <2>. QED  BY <2>1, <1>2, <1>3, <1>6 DEF all, later
<1>8. ASSUME NEW r, new = <<r>>, IsRound(market, r), r.epoch = epoch, Says(market, r, epoch, shape)
      PROVE  /\ IsRounds(market, all) /\ SaysOf(market, all, later)
             /\ all = Append(rounds, r) /\ r.epoch = epoch
             /\ \A n \in DOMAIN rounds : rounds[n].epoch < r.epoch
  <2>1. all = Append(rounds, r)
    BY <1>3, <1>5, <1>8
  <2>2. IsRounds(market, Append(rounds, r))
    BY <1>3, <1>6, <1>8, AppendedRounds
  <2>3. SaysOf(market, Append(rounds, r), later)
    <3>. SUFFICES ASSUME NEW n \in DOMAIN Append(rounds, r)
                  PROVE  LET x == Append(rounds, r)[n] IN
                         x.epoch \in DOMAIN later /\ Says(market, x, x.epoch, later[x.epoch])
      BY DEF SaysOf
    <3>1. CASE n \in DOMAIN rounds
      <4>1. Append(rounds, r)[n] = rounds[n]
        BY <1>3, <3>1
      <4>. QED  BY <4>1, <3>1, <1>6 DEF SaysOf
    <3>2. CASE n \notin DOMAIN rounds
      <4>1. Append(rounds, r)[n] = r
        BY <1>3, <3>2
      <4>. QED  BY <4>1, <1>2, <1>8
    <3>. QED  BY <3>1, <3>2
  <2>. QED  BY <2>1, <2>2, <2>3, <1>6, <1>8
<1>. QED  BY <1>2, <1>4, <1>7, <1>8 DEF all, later, epoch

-----------------------------------------------------------------------------
\* The records of a simulation.

SimFields == {"cash", "exposure", "entries", "lossStreak", "lastLoss", "daily", "netPnl"}

EntryFields ==
  {"epoch", "direction", "amount", "placedAt", "settledAt", "status", "result", "payout", "gasCost",
   "claimGasCost", "asked"}

\* A simulation with its entries, whatever they hold.
IsSim(sim) ==
  /\ DOMAIN sim = SimFields
  /\ sim.entries \in Seq(Range(sim.entries))
  /\ \A n \in DOMAIN sim.entries : DOMAIN sim.entries[n] = EntryFields

NetOf(entries, due) == [n \in due |-> tradeNetPnl(entries[n])]
BackOf(entries, due) == [n \in due |-> entries[n].payout - entries[n].claimGasCost]
StakesOf(entries, due) == [n \in due |-> entries[n].amount]
WonIn(entries, due) == {n \in due : entries[n].result = "WON"}
LostIn(entries, due) == {n \in due : entries[n].result = "LOST"}
OnDay(entries, due, d) == {n \in due : utcDay(entries[n].settledAt) = d}

\* b is the simulation sim once the entries `due` are settled, after which the ledger is `entries`.
IsBooking(b, sim, entries, due) ==
  /\ DOMAIN b = SimFields
  /\ b.entries = entries
  /\ b.cash = sim.cash + Sum(BackOf(entries, due), due)
  /\ b.exposure = sim.exposure - Sum(StakesOf(entries, due), due)
  /\ b.netPnl = sim.netPnl + Sum(NetOf(entries, due), due)
  /\ b.daily = [d \in DOMAIN sim.daily |-> sim.daily[d] + Sum(NetOf(entries, due), OnDay(entries, due, d))]
  /\ b.lossStreak = lossStreakAfter(sim.lossStreak, WonIn(entries, due), LostIn(entries, due))
  /\ b.lastLoss = IF LostIn(entries, due) = {} THEN sim.lastLoss ELSE entries[Max(LostIn(entries, due))].epoch

LEMMA BookedFields ==
  ASSUME NEW sim, DOMAIN sim = SimFields, NEW entries, NEW due
  PROVE  IsBooking(Booked(sim, entries, due), sim, entries, due)
<1>. DEFINE b == Booked(sim, entries, due)
            cash == sim.cash + Sum(BackOf(entries, due), due)
            exposure == sim.exposure - Sum(StakesOf(entries, due), due)
            netPnl == sim.netPnl + Sum(NetOf(entries, due), due)
            daily == [d \in DOMAIN sim.daily |-> sim.daily[d] + Sum(NetOf(entries, due), OnDay(entries, due, d))]
            streak == lossStreakAfter(sim.lossStreak, WonIn(entries, due), LostIn(entries, due))
            last == IF LostIn(entries, due) = {} THEN sim.lastLoss ELSE entries[Max(LostIn(entries, due))].epoch
<1>1. b = [sim EXCEPT !.entries = entries, !.cash = cash, !.exposure = exposure, !.netPnl = netPnl,
                      !.daily = daily, !.lossStreak = streak, !.lastLoss = last]
  BY Zenon DEF Booked, NetOf, BackOf, StakesOf, WonIn, LostIn, OnDay
<1>. HIDE DEF cash, exposure, netPnl, daily, streak, last, b
<1>2. DOMAIN b = SimFields /\ b.entries = entries
  BY <1>1, Zenon DEF SimFields
<1>3. b.cash = cash /\ b.exposure = exposure
  BY <1>1, Zenon DEF SimFields
<1>4. b.netPnl = netPnl /\ b.daily = daily
  BY <1>1, Zenon DEF SimFields
<1>5. b.lossStreak = streak /\ b.lastLoss = last
  BY <1>1, Zenon DEF SimFields
<1>. QED  BY <1>2, <1>3, <1>4, <1>5 DEF IsBooking, cash, exposure, netPnl, daily, streak, last, b

\* s is the entry e settled on the round r.
IsSettled(s, e, r) ==
  /\ DOMAIN s = EntryFields
  /\ s.epoch = e.epoch /\ s.direction = e.direction /\ s.amount = e.amount
  /\ s.placedAt = e.placedAt /\ s.gasCost = e.gasCost /\ s.asked = e.asked
  /\ s.status = "SETTLED" /\ s.result = resultFor(r.outcome, e.direction) /\ s.settledAt = knownAt(r)
  /\ s.payout = simulatedPayout(r, r.outcome, e.direction, e.amount)
  /\ s.claimGasCost = IF resultFor(r.outcome, e.direction) = "LOST" THEN 0 ELSE GasPerClaim

LEMMA SettledFields ==
  ASSUME NEW e, DOMAIN e = EntryFields, NEW r
  PROVE  IsSettled(Settled(e, r), e, r)
<1>. DEFINE result == resultFor(r.outcome, e.direction)
            known == knownAt(r)
            payout == simulatedPayout(r, r.outcome, e.direction, e.amount)
            gas == IF result = "LOST" THEN 0 ELSE GasPerClaim
            s == Settled(e, r)
<1>1. s = [e EXCEPT !.status = "SETTLED", !.result = result, !.settledAt = known, !.payout = payout, !.claimGasCost = gas]
  BY Zenon DEF Settled
<1>. HIDE DEF IsSettled, result, known, payout, gas, s
<1>2. DOMAIN s = EntryFields /\ s.epoch = e.epoch
  BY <1>1, Zenon DEF EntryFields
<1>3. s.direction = e.direction /\ s.amount = e.amount
  BY <1>1, Zenon DEF EntryFields
<1>4. s.placedAt = e.placedAt /\ s.gasCost = e.gasCost /\ s.asked = e.asked
  BY <1>1, Zenon DEF EntryFields
<1>5. s.status = "SETTLED" /\ s.result = result /\ s.settledAt = known
  BY <1>1, Zenon DEF EntryFields
<1>6. s.payout = payout /\ s.claimGasCost = gas
  BY <1>1, Zenon DEF EntryFields
<1>. QED  BY <1>2, <1>3, <1>4, <1>5, <1>6 DEF IsSettled, result, known, payout, gas, s

\* The entries that settling up to t settles, and what it makes of all.
Due(sim, all, t) == {n \in Pending(sim) : knownAt(RoundAt(all, sim.entries[n].epoch)) <= t}

SettledEntries(sim, all, t) ==
  [n \in DOMAIN sim.entries |->
     IF n \in Due(sim, all, t) THEN Settled(sim.entries[n], RoundAt(all, sim.entries[n].epoch)) ELSE sim.entries[n]]

LEMMA SettlingBooks ==
  ASSUME NEW sim, NEW all, NEW t
  PROVE  settleUpTo(sim, all, t) = Booked(sim, SettledEntries(sim, all, t), Due(sim, all, t))
  BY Zenon DEF settleUpTo, SettledEntries, Due

\* Settling changes what became of some entries, and nothing else about any.
LEMMA SettlingKeepsEntries ==
  ASSUME NEW sim, IsSim(sim), NEW all, NEW t
  PROVE  LET s == settleUpTo(sim, all, t) IN
         /\ IsSim(s) /\ s.entries = SettledEntries(sim, all, t)
         /\ DOMAIN s.entries = DOMAIN sim.entries /\ Len(s.entries) = Len(sim.entries)
         /\ \A n \in DOMAIN sim.entries :
              /\ s.entries[n].epoch = sim.entries[n].epoch /\ s.entries[n].direction = sim.entries[n].direction
              /\ s.entries[n].amount = sim.entries[n].amount /\ s.entries[n].placedAt = sim.entries[n].placedAt
              /\ s.entries[n].gasCost = sim.entries[n].gasCost /\ s.entries[n].asked = sim.entries[n].asked
<1>. DEFINE s == settleUpTo(sim, all, t)
            old == sim.entries
            new == SettledEntries(sim, all, t)
<1>1. old \in Seq(Range(old)) /\ Len(old) \in Nat /\ DOMAIN old = 1 .. Len(old)
  BY DEF IsSim
<1>2. s.entries = new /\ DOMAIN s = SimFields
  <2>1. s = Booked(sim, new, Due(sim, all, t)) /\ DOMAIN sim = SimFields
    BY SettlingBooks, Zenon DEF IsSim
  <2>2. IsBooking(s, sim, new, Due(sim, all, t))
    BY <2>1, BookedFields, Zenon
  <2>. QED  BY <2>2, Zenon DEF IsBooking
<1>3. DOMAIN new = DOMAIN old
  BY DEF SettledEntries
<1>. HIDE DEF s
<1>4. ASSUME NEW n \in DOMAIN old
      PROVE  /\ DOMAIN new[n] = EntryFields
             /\ new[n].epoch = old[n].epoch /\ new[n].direction = old[n].direction
             /\ new[n].amount = old[n].amount /\ new[n].placedAt = old[n].placedAt
             /\ new[n].gasCost = old[n].gasCost /\ new[n].asked = old[n].asked
  <2>1. DOMAIN old[n] = EntryFields
    BY DEF IsSim
  <2>2. CASE n \in Due(sim, all, t)
    <3>1. new[n] = Settled(old[n], RoundAt(all, old[n].epoch))
      BY <2>2 DEF SettledEntries
    <3>2. IsSettled(new[n], old[n], RoundAt(all, old[n].epoch))
      BY <2>1, <3>1, SettledFields, Zenon
    <3>. QED  BY <3>2, Zenon DEF IsSettled
  <2>3. CASE n \notin Due(sim, all, t)
    BY <2>1, <2>3 DEF SettledEntries
  <2>. QED  BY <2>2, <2>3
<1>5. new \in Seq(Range(new)) /\ Len(new) = Len(old)
  <2>1. new = [n \in 1 .. Len(old) |-> new[n]]
    BY <1>1, <1>3 DEF SettledEntries
  <2>2. \A n \in 1 .. Len(old) : new[n] \in Range(new)
    BY <1>1, <1>3 DEF Range
  <2>. HIDE DEF new
  <2>. QED  BY <1>1, <2>1, <2>2
<1>. HIDE DEF new
<1>. QED  BY <1>2, <1>3, <1>4, <1>5 DEF IsSim, s, new

-----------------------------------------------------------------------------
\* What a step depends on.

\* The times of a round of an archive that has them.
HasTimes(r) ==
  /\ r.epoch \in Nat \ {0}
  /\ r.startTime = r.epoch * Interval /\ r.lockTime = r.epoch * Interval + Interval
  /\ r.closeTime = r.epoch * Interval + 2 * Interval
  /\ r.startTime \in Nat /\ r.lockTime \in Nat /\ r.closeTime \in Nat
  /\ Timed(r)
  /\ knownAt(r) \in Int /\ r.closeTime <= knownAt(r) /\ knownAt(r) <= r.closeTime + BufferSeconds
  /\ r.outcome # "CANCELLED" => knownAt(r) = r.closeTime
  /\ \A t \in Int : isKnownAt(r, t) <=> knownAt(r) <= t

LEMMA TimesOf ==
  ASSUME NEW f, f # "PANCAKESWAP_V1", NEW r, IsRound(f, r)
  PROVE  HasTimes(r)
<1>. DEFINE e == r.epoch
<1>1. e \in Nat \ {0} /\ r.startTime = e * Interval /\ r.lockTime = (e + 1) * Interval /\ r.closeTime = (e + 2) * Interval
  BY DEF IsRound, TimeIn
<1>. HIDE DEF e
<1>2. /\ r.startTime \in Nat /\ r.lockTime \in Nat /\ r.closeTime \in Nat
      /\ r.lockTime = e * Interval + Interval /\ r.closeTime = e * Interval + 2 * Interval
  BY <1>1, TimesTyped
<1>3. Timed(r)
  BY <1>2, NullAssumption DEF Timed
<1>4. /\ knownAt(r) \in Int /\ r.closeTime <= knownAt(r) /\ knownAt(r) <= r.closeTime + BufferSeconds
      /\ r.outcome # "CANCELLED" => knownAt(r) = r.closeTime
  BY <1>2, MarketAssumption DEF knownAt
<1>5. \A t \in Int : isKnownAt(r, t) <=> knownAt(r) <= t
  BY <1>2, NullAssumption DEF isKnownAt
<1>. QED  BY <1>1, <1>2, <1>3, <1>4, <1>5 DEF HasTimes, e

\* Only an archive with times has rounds with times.
LEMMA TimedIn ==
  ASSUME NEW f, NEW r, IsRound(f, r), Timed(r)
  PROVE  f # "PANCAKESWAP_V1"
  BY DEF IsRound, TimeIn, Timed

LEMMA RoundAtIs ==
  ASSUME NEW f, NEW all, IsRounds(f, all), NEW n \in DOMAIN all
  PROVE  RoundAt(all, all[n].epoch) = all[n]
<1>. DEFINE m == CHOOSE k \in DOMAIN all : all[k].epoch = all[n].epoch
<1>1. m \in DOMAIN all /\ all[m].epoch = all[n].epoch
  OBVIOUS
<1>. HIDE DEF m
<1>2. DOMAIN all \subseteq Int /\ all[m].epoch \in Int /\ all[n].epoch \in Int
  BY <1>1 DEF IsRounds, IsRound
<1>3. ~(m < n) /\ ~(n < m)
  BY <1>1, <1>2 DEF IsRounds
<1>4. m = n
  BY <1>1, <1>2, <1>3
<1>. QED  BY <1>4 DEF RoundAt, m

\* Every bet was made on one of the rounds.
OnRounds(sim, all) == \A n \in DOMAIN sim.entries : \E m \in DOMAIN all : all[m].epoch = sim.entries[n].epoch

\* The same rounds, but for what becomes of those that close after `now`.
Similar(f, all, other, now) ==
  /\ IsRounds(f, other) /\ DOMAIN other = DOMAIN all
  /\ \A n \in DOMAIN all : /\ other[n].epoch = all[n].epoch /\ other[n].lockPrice = all[n].lockPrice
                           /\ other[n] = all[n] \/ all[n].closeTime > now

\* o may stand for the round r at the time `now`: what is known of it then is the same.
SameNow(o, r, now) ==
  /\ o.epoch = r.epoch /\ o.startTime = r.startTime /\ o.lockTime = r.lockTime
  /\ o.closeTime = r.closeTime /\ o.lockPrice = r.lockPrice
  /\ knownAt(r) <= now <=> knownAt(o) <= now
  /\ knownAt(r) <= now => o = r

LEMMA KnownIsSame ==
  ASSUME NEW f, f # "PANCAKESWAP_V1", NEW all, IsRounds(f, all), NEW now \in Int,
         NEW other, Similar(f, all, other, now), NEW n \in DOMAIN all
  PROVE  SameNow(other[n], all[n], now)
<1>. DEFINE r == all[n] o == other[n]
<1>1. IsRound(f, r) /\ IsRound(f, o) /\ o.epoch = r.epoch /\ o.lockPrice = r.lockPrice /\ (o = r \/ r.closeTime > now)
  BY DEF Similar, IsRounds
<1>. HIDE DEF r, o
<1>0. HasTimes(r) /\ HasTimes(o)
  BY <1>1, TimesOf
<1>2. o.startTime = r.startTime /\ o.lockTime = r.lockTime /\ o.closeTime = r.closeTime
  BY <1>0, <1>1 DEF HasTimes
<1>3. r.closeTime \in Int /\ knownAt(r) \in Int /\ knownAt(o) \in Int /\ r.closeTime <= knownAt(r) /\ o.closeTime <= knownAt(o)
  BY <1>0 DEF HasTimes
<1>4. r.closeTime > now => ~(knownAt(r) <= now) /\ ~(knownAt(o) <= now)
  BY <1>2, <1>3
<1>. QED  BY <1>1, <1>2, <1>4 DEF SameNow, r, o

\* The same bets are settled, and in the same way.
LEMMA SettlingAgrees ==
  ASSUME NEW f, f # "PANCAKESWAP_V1", NEW all, IsRounds(f, all), NEW now \in Int,
         NEW other, Similar(f, all, other, now), NEW sim, OnRounds(sim, all)
  PROVE  settleUpTo(sim, other, now) = settleUpTo(sim, all, now)
<1>1. ASSUME NEW n \in DOMAIN sim.entries
      PROVE  LET e == sim.entries[n].epoch IN
             /\ knownAt(RoundAt(all, e)) <= now <=> knownAt(RoundAt(other, e)) <= now
             /\ knownAt(RoundAt(all, e)) <= now => RoundAt(other, e) = RoundAt(all, e)
  <2>1. PICK m \in DOMAIN all : all[m].epoch = sim.entries[n].epoch
    BY DEF OnRounds
  <2>2. RoundAt(all, all[m].epoch) = all[m]
    BY RoundAtIs
  <2>3. IsRounds(f, other) /\ m \in DOMAIN other /\ other[m].epoch = all[m].epoch
    BY DEF Similar
  <2>4. RoundAt(other, other[m].epoch) = other[m]
    BY <2>3, RoundAtIs
  <2>5. /\ knownAt(all[m]) <= now <=> knownAt(other[m]) <= now
        /\ knownAt(all[m]) <= now => other[m] = all[m]
    BY KnownIsSame DEF SameNow
  <2>. QED  BY <2>1, <2>2, <2>3, <2>4, <2>5
<1>2. Due(sim, other, now) = Due(sim, all, now)
  BY <1>1 DEF Due, Pending
<1>3. SettledEntries(sim, other, now) = SettledEntries(sim, all, now)
  <2>1. \A n \in Due(sim, all, now) : n \in DOMAIN sim.entries /\ knownAt(RoundAt(all, sim.entries[n].epoch)) <= now
    BY DEF Due, Pending
  <2>2. \A n \in Due(sim, all, now) : RoundAt(other, sim.entries[n].epoch) = RoundAt(all, sim.entries[n].epoch)
    BY <1>1, <2>1
  <2>. QED  BY <1>2, <2>2 DEF SettledEntries
<1>. QED  BY <1>2, <1>3, SettlingBooks

LEMMA LastOf ==
  ASSUME NEW s, s \in Seq(Range(s)), s # << >>
  PROVE  /\ Len(s) \in Nat \ {0} /\ DOMAIN s = 1 .. Len(s) /\ Last(s) = s[Len(s)]
         /\ DOMAIN Front(s) = 1 .. Len(s) - 1 /\ Len(Front(s)) = Len(s) - 1
         /\ \A n \in 1 .. Len(s) - 1 : Front(s)[n] = s[n]
         /\ Front(s) = << >> <=> Len(s) = 1
<1>1. Len(s) \in Nat /\ DOMAIN s = 1 .. Len(s) /\ Len(s) # 0
  OBVIOUS
<1>2. Front(s) = SubSeq(s, 1, Len(s) - 1)
  BY DEF Front
<1>3. DOMAIN Front(s) = 1 .. Len(s) - 1 /\ Len(Front(s)) = Len(s) - 1
      /\ \A n \in 1 .. Len(s) - 1 : Front(s)[n] = s[n]
  BY <1>1, <1>2
<1>4. Front(s) = << >> <=> Len(s) = 1
  <2>1. CASE Len(s) = 1
    BY <1>1, <1>2, <2>1
  <2>2. CASE Len(s) # 1
    BY <1>1, <1>3, <2>2
  <2>. QED  BY <2>1, <2>2
<1>. QED  BY <1>1, <1>3, <1>4 DEF Last

\* What the strategy may see of a history: the indices of the rounds it knows.
Known(all, epoch, now) == {n \in DOMAIN all : all[n].epoch < epoch /\ isKnownAt(all[n], now)}

\* The round before the one with this epoch, if it is the last of `before` and locked.
RoundBefore(before, epoch, now) ==
  {r \in IF before = << >> THEN {} ELSE {r \in {Last(before)} : r.epoch = epoch - 1} :
     r.epoch = epoch - 1 /\ r.lockTime # Null /\ r.lockTime <= now}

\* Its lock price.
RunningPrice(live) == IF live = {} THEN Null ELSE (CHOOSE r \in live : TRUE).lockPrice

\* A context, from the rounds known and the price of the running one.
ContextOf(cfg, sim, epoch, known, price) ==
  LET shown == LastN(known, lookbackFor(cfg))
      own == OwnTrades(sim.entries, epoch)
  IN  [epoch     |-> epoch,
       history   |-> [n \in DOMAIN shown |-> toRoundView(shown[n])],
       livePrice |-> price,
       ownTrades |-> [n \in DOMAIN own |-> [epoch |-> own[n].epoch, direction |-> own[n].direction,
                                            amount |-> own[n].amount, result |-> own[n].result]],
       bankroll  |-> sim.cash + sim.exposure,
       payouts   |-> Null]

LEMMA ContextAtIs ==
  ASSUME NEW cfg, NEW sim, NEW all, NEW now
  PROVE  LET before == Front(all) epoch == Last(all).epoch IN
         ContextAt(cfg, sim, all, now) =
           ContextOf(cfg, sim, epoch, Picked(before, Known(before, epoch, now)), RunningPrice(RoundBefore(before, epoch, now)))
<1>. DEFINE round == Last(all)
            before == Front(all)
            back == lookbackFor(cfg)
            live == IF before = << >> THEN {} ELSE {r \in {Last(before)} : r.epoch = round.epoch - 1}
            bankroll == sim.cash + sim.exposure
            i == [now |-> now, epoch |-> round.epoch, history |-> before, live |-> live,
                  lookback |-> back, ownTrades |-> sim.entries,
                  bankroll |-> bankroll, pool |-> Null]
<1>1. ContextAt(cfg, sim, all, now) = buildContext(i)
  BY Zenon DEF ContextAt
<1>2. /\ i.now = now /\ i.epoch = round.epoch /\ i.history = before /\ i.live = live
      /\ i.lookback = back /\ i.ownTrades = sim.entries /\ i.bankroll = bankroll
  BY Zenon
<1>3. i.pool = Null
  BY Zenon
<1>. HIDE DEF i
<1>4. Known(before, round.epoch, now) =
        {n \in DOMAIN i.history : i.history[n].epoch < i.epoch /\ isKnownAt(i.history[n], i.now)}
  BY <1>2, Zenon DEF Known
<1>5. RoundBefore(before, round.epoch, now) =
        {r \in i.live : r.epoch = i.epoch - 1 /\ r.lockTime # Null /\ r.lockTime <= i.now}
  BY <1>2, Zenon DEF RoundBefore
<1>. QED  BY <1>1, <1>2, <1>3, <1>4, <1>5, Zenon DEF buildContext, ContextOf, RunningPrice

\* A strategy is shown the same.
LEMMA ContextAgrees ==
  ASSUME NEW f, f # "PANCAKESWAP_V1", NEW all, IsRounds(f, all), all # << >>, NEW now \in Int,
         NEW other, Similar(f, all, other, now), NEW cfg, NEW sim
  PROVE  ContextAt(cfg, sim, other, now) = ContextAt(cfg, sim, all, now)
<1>. DEFINE before == Front(all)
            past2 == Front(other)
            epoch == Last(all).epoch
            m == Len(all)
<1>1. all \in Seq(Range(all)) /\ other \in Seq(Range(other)) /\ DOMAIN other = DOMAIN all
  BY DEF IsRounds, Similar
<1>2. m \in Nat \ {0} /\ DOMAIN all = 1 .. m /\ Last(all) = all[m] /\ DOMAIN before = 1 .. m - 1
      /\ (\A n \in 1 .. m - 1 : before[n] = all[n]) /\ (before = << >> <=> m = 1) /\ Len(before) = m - 1
  BY <1>1, LastOf
<1>3. other # << >> /\ Len(other) = m
  BY <1>1, <1>2
<1>4. Last(other) = other[m] /\ DOMAIN past2 = 1 .. m - 1
      /\ (\A n \in 1 .. m - 1 : past2[n] = other[n]) /\ (past2 = << >> <=> m = 1) /\ Len(past2) = m - 1
  BY <1>1, <1>3, LastOf
<1>. HIDE DEF before, past2, m
<1>5. \A n \in 1 .. m : /\ other[n].epoch = all[n].epoch
                        /\ other[n].lockTime = all[n].lockTime /\ other[n].lockPrice = all[n].lockPrice
                        /\ knownAt(all[n]) <= now <=> knownAt(other[n]) <= now
                        /\ knownAt(all[n]) <= now => other[n] = all[n]
  <2>1. \A n \in 1 .. m : SameNow(other[n], all[n], now)
    BY <1>2, KnownIsSame, Zenon
  <2>. QED  BY <2>1, Zenon DEF SameNow
<1>6. \A n \in 1 .. m : HasTimes(all[n]) /\ HasTimes(other[n])
  BY <1>1, <1>2, TimesOf DEF IsRounds, Similar
<1>7. \A n \in 1 .. m : /\ isKnownAt(all[n], now) <=> knownAt(all[n]) <= now
                        /\ isKnownAt(other[n], now) <=> knownAt(other[n]) <= now
  BY <1>6 DEF HasTimes
<1>8. Last(other).epoch = epoch
  BY <1>2, <1>4, <1>5
<1>9. Known(past2, epoch, now) = Known(before, epoch, now)
  <2>. SUFFICES ASSUME NEW n \in 1 .. m - 1
                PROVE  /\ past2[n].epoch < epoch <=> before[n].epoch < epoch
                       /\ isKnownAt(past2[n], now) <=> isKnownAt(before[n], now)
    BY <1>2, <1>4 DEF Known
  <2>1. n \in 1 .. m /\ past2[n] = other[n] /\ before[n] = all[n]
    BY <1>2, <1>4
  <2>. QED  BY <2>1, <1>5, <1>7
<1>10. Picked(past2, Known(past2, epoch, now)) = Picked(before, Known(before, epoch, now))
  <2>. DEFINE K == Known(before, epoch, now)
  <2>1. K \subseteq 1 .. m - 1
    BY <1>2 DEF Known
  <2>2. K \in SUBSET Int
    BY <2>1
  <2>3. IsFiniteSet(K)
    <3>1. IsFiniteSet(1 .. m - 1)
      BY <1>2, FS_Interval
    <3>. HIDE DEF K
    <3>. QED  BY <2>1, <3>1, FS_Subset
  <2>4. ASSUME NEW n \in K PROVE past2[n] = before[n]
    <3>1. n \in 1 .. m - 1 /\ isKnownAt(before[n], now)
      BY <1>2 DEF Known
    <3>2. n \in 1 .. m /\ past2[n] = other[n] /\ before[n] = all[n]
      BY <1>2, <1>4, <3>1
    <3>. QED  BY <3>1, <3>2, <1>5, <1>7
  <2>. HIDE DEF K
  <2>5. Picked(past2, K) = Picked(before, K)
    BY <2>2, <2>3, <2>4, AtAgrees
  <2>. QED  BY <2>5, <1>9 DEF K
<1>11. RunningPrice(RoundBefore(past2, epoch, now)) = RunningPrice(RoundBefore(before, epoch, now))
  <2>1. CASE m = 1
    <3>1. RoundBefore(past2, epoch, now) = {} /\ RoundBefore(before, epoch, now) = {}
      BY <1>2, <1>4, <2>1 DEF RoundBefore
    <3>. QED  BY <3>1
  <2>2. CASE m # 1
    <3>. DEFINE r == all[m - 1] o == other[m - 1]
    <3>1. Last(before) = r /\ Last(past2) = o /\ m - 1 \in 1 .. m
      BY <1>2, <1>4, <2>2 DEF Last
    <3>2. o.epoch = r.epoch /\ o.lockTime = r.lockTime /\ o.lockPrice = r.lockPrice
      BY <1>5, <3>1
    <3>. DEFINE Shown == r.epoch = epoch - 1 /\ r.lockTime # Null /\ r.lockTime <= now
    <3>3. /\ RoundBefore(before, epoch, now) = IF Shown THEN {r} ELSE {}
          /\ RoundBefore(past2, epoch, now) = IF Shown THEN {o} ELSE {}
      <4>. HIDE DEF r, o
      <4>. QED  BY <1>2, <1>4, <2>2, <3>1, <3>2 DEF RoundBefore
    <3>. HIDE DEF r, o, Shown
    <3>4. RunningPrice({r}) = r.lockPrice /\ RunningPrice({o}) = o.lockPrice
      BY DEF RunningPrice
    <3>. QED  BY <3>2, <3>3, <3>4
  <2>. QED  BY <2>1, <2>2
<1>12. ContextAt(cfg, sim, all, now) = ContextOf(cfg, sim, epoch, Picked(before, Known(before, epoch, now)), RunningPrice(RoundBefore(before, epoch, now)))
  BY ContextAtIs, Zenon DEF before
<1>13. ContextAt(cfg, sim, other, now) = ContextOf(cfg, sim, epoch, Picked(past2, Known(past2, epoch, now)), RunningPrice(RoundBefore(past2, epoch, now)))
  BY ContextAtIs, <1>8, Zenon DEF past2
<1>. HIDE DEF epoch
<1>. QED  BY <1>10, <1>11, <1>12, <1>13

\* So it makes the same decision: a step depends on nothing that was not known when it was decided.
LEMMA EvaluateAgrees ==
  ASSUME NEW f, f # "PANCAKESWAP_V1", NEW all, IsRounds(f, all), all # << >>, NEW cfg,
         DecisionTime(cfg, Last(all)) \in Int,
         NEW other, Similar(f, all, other, DecisionTime(cfg, Last(all))), NEW sim, OnRounds(sim, all)
  PROVE  Evaluate(cfg, sim, other) = Evaluate(cfg, sim, all)
<1>. DEFINE round == Last(all)
            round2 == Last(other)
            now == DecisionTime(cfg, Last(all))
            m == Len(all)
<1>1. all \in Seq(Range(all)) /\ other \in Seq(Range(other)) /\ DOMAIN other = DOMAIN all
  BY DEF IsRounds, Similar
<1>2. m \in Nat \ {0} /\ DOMAIN all = 1 .. m /\ round = all[m] /\ m \in DOMAIN all
  BY <1>1, LastOf
<1>3. other # << >> /\ Len(other) = m
  BY <1>1, <1>2
<1>4. round2 = other[m]
  BY <1>1, <1>3, LastOf
<1>. HIDE DEF m
<1>5. round2.epoch = round.epoch /\ round2.startTime = round.startTime /\ round2.lockTime = round.lockTime
  <2>1. SameNow(other[m], all[m], now)
    BY <1>2, KnownIsSame, Zenon
  <2>. QED  BY <2>1, <1>2, <1>4, Zenon DEF SameNow
<1>6. DecisionTime(cfg, round2) = now
  BY <1>5, Zenon DEF DecisionTime
<1>. DEFINE settled == settleUpTo(sim, all, now)
<1>7. settleUpTo(sim, other, now) = settled
  BY SettlingAgrees
<1>8. ContextAt(cfg, settled, other, now) = ContextAt(cfg, settled, all, now)
  BY ContextAgrees
<1>9. RiskStateAt(settled, round2, now) = RiskStateAt(settled, round, now)
  BY <1>5, Zenon DEF RiskStateAt
<1>10. DecisionAt(cfg, settled, other, now) = DecisionAt(cfg, settled, all, now)
  BY <1>8, <1>9, Zenon DEF DecisionAt
<1>. DEFINE d == DecisionAt(cfg, settled, all, now)
<1>11. Entry(d, round2, now) = Entry(d, round, now)
  BY <1>5, Zenon DEF Entry
<1>12. Placed(settled, d, round2, now) = Placed(settled, d, round, now)
  BY <1>11, Zenon DEF Placed
<1>. QED  BY <1>6, <1>7, <1>10, <1>12, Zenon DEF Evaluate

-----------------------------------------------------------------------------
\* A step of a simulation.

LEMMA MaxOfTwo ==
  ASSUME NEW a \in Int, NEW b \in Int
  PROVE  Max({a, b}) \in {a, b} /\ a <= Max({a, b}) /\ b <= Max({a, b})
<1>1. \E x \in {a, b} : \A y \in {a, b} : x >= y
  OBVIOUS
<1>. QED  BY <1>1 DEF Max

LEMMA DecisionTimeTyped ==
  ASSUME NEW f, f # "PANCAKESWAP_V1", NEW r, IsRound(f, r), NEW cfg, ValidConfig(cfg)
  PROVE  /\ DecisionTime(cfg, r) \in Nat /\ r.startTime <= DecisionTime(cfg, r)
         /\ DecisionTime(cfg, r) < r.closeTime
<1>1. HasTimes(r)
  BY TimesOf
<1>2. cfg.entrySeconds \in Nat \ {0}
  BY DEF ValidConfig
<1>. DEFINE a == r.startTime
            b == r.lockTime - cfg.entrySeconds
<1>3. a \in Nat /\ b \in Int /\ a < r.closeTime /\ b < r.closeTime /\ r.closeTime \in Nat
  BY <1>1, <1>2, TimesAssumption DEF HasTimes
<1>. HIDE DEF a, b
<1>4. Max({a, b}) \in {a, b} /\ a <= Max({a, b}) /\ b <= Max({a, b})
  <2>1. a \in Int /\ b \in Int
    BY <1>3
  <2>. QED  BY <2>1, MaxOfTwo, Zenon
<1>5. DecisionTime(cfg, r) = Max({a, b})
  BY DEF DecisionTime, a, b
<1>. QED  BY <1>3, <1>4, <1>5 DEF a

\* p is the simulation s with the bet of the decision d placed.
IsPlaced(p, s, d, round, now) ==
  /\ DOMAIN p = SimFields
  /\ p.cash = s.cash - (d.stake + GasPerBet) /\ p.exposure = s.exposure + d.stake
  /\ p.entries = Append(s.entries, Entry(d, round, now))
  /\ p.lossStreak = s.lossStreak /\ p.lastLoss = s.lastLoss /\ p.daily = s.daily /\ p.netPnl = s.netPnl

LEMMA PlacedFields ==
  ASSUME NEW s, DOMAIN s = SimFields, NEW d, NEW round, NEW now
  PROVE  /\ d.kind # "TRADE" => Placed(s, d, round, now) = s
         /\ d.kind = "TRADE" => IsPlaced(Placed(s, d, round, now), s, d, round, now)
<1>1. d.kind # "TRADE" => Placed(s, d, round, now) = s
  BY Zenon DEF Placed
<1>. SUFFICES ASSUME d.kind = "TRADE" PROVE IsPlaced(Placed(s, d, round, now), s, d, round, now)
  BY <1>1
<1>. DEFINE cash == s.cash - (d.stake + GasPerBet)
            exposure == s.exposure + d.stake
            entries == Append(s.entries, Entry(d, round, now))
            p == Placed(s, d, round, now)
<1>2. p = [s EXCEPT !.cash = cash, !.exposure = exposure, !.entries = entries]
  BY Zenon DEF Placed
<1>. HIDE DEF cash, exposure, entries, p
<1>3. DOMAIN p = SimFields /\ p.cash = cash /\ p.exposure = exposure /\ p.entries = entries
  BY <1>2, Zenon DEF SimFields
<1>4. p.lossStreak = s.lossStreak /\ p.lastLoss = s.lastLoss /\ p.daily = s.daily /\ p.netPnl = s.netPnl
  BY <1>2, Zenon DEF SimFields
<1>. QED  BY <1>3, <1>4 DEF IsPlaced, cash, exposure, entries, p

\* e is the entry the decision d adds to the ledger.
IsEntryOf(e, d, round, now) ==
  /\ DOMAIN e = EntryFields
  /\ e.epoch = round.epoch /\ e.direction = d.direction /\ e.amount = d.stake /\ e.placedAt = now
  /\ e.settledAt = Null /\ e.status = "CONFIRMED" /\ e.result = Null /\ e.payout = Null
  /\ e.gasCost = GasPerBet /\ e.claimGasCost = Null /\ e.asked = d.asked

LEMMA EntryFieldsAre ==
  ASSUME NEW d, NEW round, NEW now
  PROVE  IsEntryOf(Entry(d, round, now), d, round, now)
<1>1. DOMAIN Entry(d, round, now) = EntryFields
  BY DEF Entry, EntryFields
<1>. QED  BY <1>1, Zenon DEF Entry, IsEntryOf

\* A ledger with one entry more.
LEMMA AppendedEntry ==
  ASSUME NEW s, s \in Seq(Range(s)), NEW e
  PROVE  /\ Append(s, e) \in Seq(Range(Append(s, e))) /\ Len(s) \in Nat /\ Len(Append(s, e)) = Len(s) + 1
         /\ DOMAIN s = 1 .. Len(s) /\ DOMAIN Append(s, e) = (DOMAIN s) \cup {Len(s) + 1}
         /\ Append(s, e)[Len(s) + 1] = e /\ \A n \in DOMAIN s : Append(s, e)[n] = s[n]
<1>. DEFINE S == Range(s) \cup {e}
            t == Append(s, e)
<1>1. s \in Seq(S) /\ e \in S
  OBVIOUS
<1>. HIDE DEF S
<1>2. t \in Seq(S) /\ Len(t) = Len(s) + 1 /\ Len(s) \in Nat /\ DOMAIN s = 1 .. Len(s)
      /\ DOMAIN t = 1 .. Len(s) + 1
      /\ t[Len(s) + 1] = e /\ \A n \in DOMAIN s : t[n] = s[n]
  BY <1>1
<1>. HIDE DEF t
<1>3. t \in Seq(Range(t))
  BY <1>2, IsSequence
<1>4. DOMAIN t = (DOMAIN s) \cup {Len(s) + 1}
  BY <1>2
<1>. QED  BY <1>2, <1>3, <1>4 DEF t

\* What holds of every simulation, of a replay or of a window: its bets are on the rounds replayed.
Based(sim, all) == IsSim(sim) /\ OnRounds(sim, all)

LEMMA SettlingBased ==
  ASSUME NEW sim, NEW all, Based(sim, all), NEW t
  PROVE  Based(settleUpTo(sim, all, t), all)
<1>1. IsSim(settleUpTo(sim, all, t)) /\ DOMAIN settleUpTo(sim, all, t).entries = DOMAIN sim.entries
      /\ \A n \in DOMAIN sim.entries : settleUpTo(sim, all, t).entries[n].epoch = sim.entries[n].epoch
  BY SettlingKeepsEntries DEF Based
<1>. QED  BY <1>1 DEF Based, OnRounds

LEMMA EvaluateBased ==
  ASSUME NEW cfg, NEW sim, NEW all, all \in Seq(Range(all)), all # << >>, Based(sim, all)
  PROVE  Based(Evaluate(cfg, sim, all), all)
<1>. DEFINE round == Last(all)
            now == DecisionTime(cfg, round)
            s == settleUpTo(sim, all, now)
            d == DecisionAt(cfg, s, all, now)
            p == Placed(s, d, round, now)
            e == Entry(d, round, now)
<1>1. Based(s, all)
  BY SettlingBased
<1>2. Evaluate(cfg, sim, all) = p
  BY Zenon DEF Evaluate
<1>. HIDE DEF s, d, now
<1>3. CASE d.kind # "TRADE"
  <2>1. p = s
    BY <1>3, Zenon DEF Placed
  <2>. QED  BY <1>1, <1>2, <2>1
<1>4. CASE d.kind = "TRADE"
  <2>1. DOMAIN s = SimFields
    BY <1>1 DEF Based, IsSim
  <2>2. IsPlaced(p, s, d, round, now)
    BY <2>1, <1>4, PlacedFields, Zenon
  <2>3. DOMAIN p = SimFields /\ p.entries = Append(s.entries, e)
    BY <2>2, Zenon DEF IsPlaced
  <2>. HIDE DEF p
  <2>4. DOMAIN e = EntryFields /\ e.epoch = round.epoch
    <3>1. IsEntryOf(e, d, round, now)
      BY EntryFieldsAre
    <3>. HIDE DEF e, round
    <3>. QED  BY <3>1, Zenon DEF IsEntryOf
  <2>5. round = all[Len(all)] /\ Len(all) \in DOMAIN all
    BY LastOf
  <2>. HIDE DEF e, round
  <2>. DEFINE old == s.entries
              new == Append(old, e)
  <2>6. old \in Seq(Range(old)) /\ (\A n \in DOMAIN old : DOMAIN old[n] = EntryFields)
        /\ \A n \in DOMAIN old : \E m \in DOMAIN all : all[m].epoch = old[n].epoch
    BY <1>1 DEF Based, IsSim, OnRounds
  <2>. HIDE DEF old
  <2>7. new \in Seq(Range(new)) /\ DOMAIN new = (DOMAIN old) \cup {Len(old) + 1} /\ new[Len(old) + 1] = e
        /\ \A n \in DOMAIN old : new[n] = old[n]
    BY <2>6, AppendedEntry
  <2>. HIDE DEF new
  <2>8. \A n \in DOMAIN new : DOMAIN new[n] = EntryFields /\ \E m \in DOMAIN all : all[m].epoch = new[n].epoch
    BY <2>4, <2>5, <2>6, <2>7
  <2>9. p.entries = new
    BY <2>3 DEF new, old
  <2>. QED  BY <1>2, <2>3, <2>7, <2>8, <2>9 DEF Based, IsSim, OnRounds
<1>. QED  BY <1>3, <1>4

LEMMA NewSimBased ==
  ASSUME NEW all
  PROVE  Based(NewSim, all)
<1>1. NewSim.entries = << >> /\ DOMAIN NewSim = SimFields
  BY DEF NewSim, SimFields
<1>. QED  BY <1>1 DEF Based, IsSim, OnRounds, Range

\* The rounds replayed so far are among those that follow.
LEMMA BasedOnMore ==
  ASSUME NEW sim, NEW all, Based(sim, all), NEW more,
         \A n \in DOMAIN all : n \in DOMAIN more /\ more[n] = all[n]
  PROVE  Based(sim, more)
  BY DEF Based, OnRounds

-----------------------------------------------------------------------------
\* A replayed decision depends on nothing that was not known when it was taken.

BaseInv == RoundsInv /\ DOMAIN sims = Keys /\ \A k \in Keys : Based(sims[k], rounds)

LEMMA BaseInit == Init => BaseInv
<1>. SUFFICES ASSUME Init PROVE BaseInv
  OBVIOUS
<1>1. sims = [k \in Keys |-> NewSim]
  BY DEF Init
<1>. QED  BY <1>1, RoundsInit, NewSimBased DEF BaseInv

\* What a step makes of the simulation of strategy k.
SimAfter(k, shape) ==
  LET all == AllAfter(shape)
  IN  IF all # rounds /\ Timed(Last(all)) THEN Evaluate(Specs[k], sims[k], all) ELSE sims[k]

LEMMA StepIs ==
  ASSUME NEW shape, Step(shape)
  PROVE  /\ past' = Append(past, shape) /\ rounds' = AllAfter(shape) /\ market' = market /\ finished' = finished
         /\ sims' = [k \in Keys |-> SimAfter(k, shape)]
         /\ ~finished /\ Len(past) + 1 <= MaxRounds
  BY Zenon DEF Step, AllAfter, SimAfter

LEMMA AllAfterIsMore ==
  ASSUME RoundsInv, NEW shape \in Shapes
  PROVE  LET all == AllAfter(shape) IN
         /\ all \in Seq(Range(all)) /\ \A n \in DOMAIN rounds : n \in DOMAIN all /\ all[n] = rounds[n]
         /\ all # rounds => /\ all # << >> /\ Last(all).epoch = Len(past) + 1
                            /\ Len(all) = Len(rounds) + 1 /\ Front(all) = rounds
<1>. DEFINE all == AllAfter(shape)
<1>1. /\ IsRounds(market, all)
      /\ \/ all = rounds
         \/ \E r : all = Append(rounds, r) /\ r.epoch = Len(past) + 1
  BY RoundsStep
<1>. HIDE DEF all
<1>2. all \in Seq(Range(all)) /\ rounds \in Seq(Range(rounds))
  BY <1>1 DEF IsRounds, RoundsInv
<1>3. ASSUME NEW r, all = Append(rounds, r), r.epoch = Len(past) + 1
      PROVE  /\ \A n \in DOMAIN rounds : n \in DOMAIN all /\ all[n] = rounds[n]
             /\ all # << >> /\ Last(all).epoch = Len(past) + 1
             /\ Len(all) = Len(rounds) + 1 /\ Front(all) = rounds
  <2>1. Len(all) = Len(rounds) + 1 /\ DOMAIN all = (DOMAIN rounds) \cup {Len(rounds) + 1} /\ all[Len(rounds) + 1] = r
        /\ (\A n \in DOMAIN rounds : all[n] = rounds[n]) /\ Len(rounds) \in Nat /\ DOMAIN rounds = 1 .. Len(rounds)
    BY <1>2, <1>3, AppendedEntry
  <2>2. all # << >> /\ Last(all) = r
    BY <1>2, <2>1, LastOf
  <2>3. Front(all) = rounds
    <3>1. Front(all) = SubSeq(all, 1, Len(all) - 1)
      BY DEF Front
    <3>2. DOMAIN Front(all) = 1 .. Len(rounds) /\ \A n \in 1 .. Len(rounds) : Front(all)[n] = all[n]
      BY <1>2, <2>1, <2>2, LastOf
    <3>3. Front(all) = [n \in 1 .. Len(rounds) |-> all[n]]
      BY <2>1, <3>1
    <3>4. rounds = [n \in 1 .. Len(rounds) |-> rounds[n]]
      BY <1>2
    <3>. QED  BY <2>1, <3>3, <3>4
  <2>. QED  BY <1>3, <2>1, <2>2, <2>3
<1>. QED  BY <1>1, <1>2, <1>3 DEF all

LEMMA BaseNext == BaseInv /\ [Next]_vars => BaseInv'
<1>. SUFFICES ASSUME BaseInv, [Next]_vars PROVE BaseInv'
  OBVIOUS
<1>1. ASSUME NEW shape \in Shapes, Step(shape) PROVE BaseInv'
  <2>. DEFINE all == AllAfter(shape)
  <2>1. /\ IsRounds(market, all) /\ SaysOf(market, all, Append(past, shape))
        /\ Append(past, shape) \in Seq(AllShapes)
    BY RoundsStep DEF BaseInv
  <2>2. all \in Seq(Range(all)) /\ (\A n \in DOMAIN rounds : n \in DOMAIN all /\ all[n] = rounds[n])
        /\ (all # rounds => all # << >>)
    BY AllAfterIsMore DEF BaseInv
  <2>3. /\ past' = Append(past, shape) /\ rounds' = all /\ market' = market
        /\ sims' = [k \in Keys |-> SimAfter(k, shape)]
    BY <1>1, StepIs
  <2>. HIDE DEF all
  <2>4. RoundsInv'
    BY <2>1, <2>3 DEF RoundsInv, BaseInv
  <2>5. ASSUME NEW k \in Keys PROVE Based(sims'[k], all)
    <3>1. Based(sims[k], rounds)
      BY DEF BaseInv
    <3>2. Based(sims[k], all)
      BY <3>1, <2>2, BasedOnMore
    <3>3. all # rounds => Based(Evaluate(Specs[k], sims[k], all), all)
      BY <2>2, <3>2, EvaluateBased
    <3>. QED  BY <2>3, <3>2, <3>3 DEF SimAfter, all
  <2>. QED  BY <2>3, <2>4, <2>5 DEF BaseInv
<1>2. CASE Finish
  <2>. DEFINE end == (Last(rounds).epoch + 2) * Interval + BufferSeconds
  <2>1. /\ market' = market /\ past' = past /\ rounds' = rounds
        /\ sims' = [k \in Keys |-> settleUpTo(sims[k], rounds, end)]
    BY <1>2 DEF Finish
  <2>. HIDE DEF end
  <2>2. \A k \in Keys : Based(sims'[k], rounds)
    BY <2>1, SettlingBased DEF BaseInv
  <2>3. RoundsInv'
    BY <2>1 DEF RoundsInv, BaseInv
  <2>. QED  BY <2>1, <2>2, <2>3 DEF BaseInv
<1>3. CASE UNCHANGED vars
  BY <1>3 DEF BaseInv, RoundsInv, vars
<1>. QED  BY <1>1, <1>2, <1>3 DEF Next

LEMMA BaseAlways == Spec => []BaseInv
<1>. QED  BY BaseInit, BaseNext, PTL DEF Spec

\* The configuration of a strategy of the replay.
LEMMA SpecIsValid ==
  ASSUME NEW k \in Keys
  PROVE  ValidConfig(Specs[k]) /\ Specs[k].plugin \in Plugins
<1>1. Specs[k] # Null /\ Specs[k].plugin \in Plugins /\ parseStrategyConfig(Specs[k].plugin, Specs[k]) = Specs[k]
  BY ConfigAssumption DEF Keys
<1>. QED  BY <1>1, Zenon DEF parseStrategyConfig

\* The round r with something else become of it.
LEMMA OtherwiseIs ==
  ASSUME NEW f, f # "PANCAKESWAP_V1", NEW r, IsRound(f, r), NEW shape, IsShape(shape)
  PROVE  LET o == Otherwise(r, shape) IN IsRound(f, o) /\ o.epoch = r.epoch /\ o.lockPrice = r.lockPrice
<1>. DEFINE price == OrZero(r.lockPrice)
            other == [shape EXCEPT !.lockPrice = price]
            o == Otherwise(r, shape)
<1>1. price \in Nat /\ OrNull(price) = r.lockPrice /\ r.epoch \in Nat \ {0}
  BY NullAssumption DEF IsRound, OrZero, OrNull
<1>. HIDE DEF price
<1>2. IsShape(other) /\ other.lockPrice = price
  <2>1. DOMAIN shape = {"lockPrice", "closePrice", "called", "bull", "bear", "lines"}
    BY Zenon DEF IsShape
  <2>2. other.lockPrice = price /\ other.closePrice = shape.closePrice /\ other.bull = shape.bull
    BY <2>1, Zenon
  <2>3. other.bear = shape.bear /\ other.called = shape.called /\ other.lines = shape.lines
    BY <2>1, Zenon
  <2>4. DOMAIN other = DOMAIN shape
    OBVIOUS
  <2>5. {shape.lockPrice, shape.closePrice, shape.bull, shape.bear} \subseteq Nat
    BY Zenon DEF IsShape
  <2>. HIDE DEF other
  <2>6. {other.lockPrice, other.closePrice, other.bull, other.bear} \subseteq Nat
    BY <1>1, <2>2, <2>3, <2>5
  <2>7. other.called \in BOOLEAN /\ other.lines \in {"one", "twice", "conflicting", "damaged", "unfinished"}
    BY <2>3, Zenon DEF IsShape
  <2>. QED  BY <2>1, <2>2, <2>4, <2>6, <2>7, Zenon DEF IsShape
<1>3. Says("PANCAKESWAP_V2", o, r.epoch, other)
  <2>1. o = FinalRound(r.epoch, other)
    BY DEF Otherwise, price
  <2>. HIDE DEF o, other
  <2>. QED  BY <1>1, <1>2, <2>1, FinalSays
<1>. HIDE DEF o, other
<1>4. IsRound("PANCAKESWAP_V2", o)
  BY <1>1, <1>2, <1>3, SaysTyped
<1>5. o.epoch = r.epoch /\ o.lockPrice = r.lockPrice
  BY <1>1, <1>2, <1>3 DEF Says
<1>. QED  BY <1>4, <1>5 DEF IsRound, TimeIn, o

\* Another course of the rounds of `all`: what strategy k can tell of them is the same.
LEMMA HindsightIsSimilar ==
  ASSUME NEW f, f # "PANCAKESWAP_V1", NEW all, IsRounds(f, all), all # << >>, NEW k \in Keys,
         NEW other \in Hindsights(k, all)
  PROVE  /\ Similar(f, all, other, DecisionTime(Specs[k], Last(all)))
         /\ DecisionTime(Specs[k], Last(all)) \in Int
<1>. DEFINE now == DecisionTime(Specs[k], Last(all))
            Open(r) == Timed(r) /\ r.closeTime > now
<1>1. PICK shape \in Shapes :
        other = [n \in DOMAIN all |-> IF Open(all[n]) THEN Otherwise(all[n], shape) ELSE all[n]]
  BY DEF Hindsights
<1>2. IsShape(shape)
  BY ShapesAssumption
<1>3. all \in Seq(Range(all)) /\ DOMAIN all = 1 .. Len(all) /\ Len(all) \in Nat /\ Last(all) \in Range(all)
      /\ \A n \in DOMAIN all : IsRound(f, all[n])
  BY LastOf DEF IsRounds
<1>4. now \in Int
  <2>1. IsRound(f, Last(all)) /\ ValidConfig(Specs[k])
    BY <1>3, SpecIsValid DEF Range
  <2>2. DecisionTime(Specs[k], Last(all)) \in Nat
    BY <2>1, DecisionTimeTyped
  <2>. QED  BY <2>2
<1>5. ASSUME NEW n \in DOMAIN all
      PROVE  /\ IsRound(f, other[n]) /\ other[n].epoch = all[n].epoch /\ other[n].lockPrice = all[n].lockPrice
             /\ other[n] = all[n] \/ all[n].closeTime > now
  <2>. DEFINE r == all[n]
  <2>. HIDE DEF now
  <2>1. IsRound(f, r)
    BY <1>3
  <2>2. CASE Open(r)
    <3>1. other[n] = Otherwise(r, shape)
      BY <1>1, <2>2
    <3>. HIDE DEF r
    <3>2. IsRound(f, Otherwise(r, shape)) /\ Otherwise(r, shape).epoch = r.epoch
          /\ Otherwise(r, shape).lockPrice = r.lockPrice
      BY <1>2, <2>1, OtherwiseIs
    <3>. QED  BY <2>2, <3>1, <3>2 DEF r
  <2>3. CASE ~Open(r)
    BY <1>1, <2>1, <2>3
  <2>. QED  BY <2>2, <2>3
<1>6. DOMAIN other = DOMAIN all /\ other = [n \in 1 .. Len(all) |-> other[n]]
  BY <1>1, <1>3
<1>. HIDE DEF now
<1>7. other \in Seq(Range(other))
  <2>1. \A n \in 1 .. Len(all) : other[n] \in Range(other)
    BY <1>3, <1>6 DEF Range
  <2>. QED  BY <1>3, <1>6, <2>1
<1>8. \A i, j \in DOMAIN other : i < j => other[i].epoch < other[j].epoch
  BY <1>5, <1>6 DEF IsRounds
<1>9. IsRounds(f, other)
  BY <1>5, <1>6, <1>7, <1>8 DEF IsRounds
<1>. QED  BY <1>4, <1>5, <1>6, <1>9 DEF Similar, now

LEMMA NothingAhead ==
  ASSUME BaseInv, [Next]_vars, Len(rounds') > Len(rounds), Timed(Last(rounds')),
         NEW k \in Keys, NEW other \in Hindsights(k, rounds')
  PROVE  sims'[k] = Evaluate(Specs[k], sims[k], other)
<1>1. rounds' # rounds
  <2>1. Len(rounds) \in Nat
    BY DEF BaseInv, RoundsInv, IsRounds
  <2>. QED  BY <2>1
<1>2. PICK shape \in Shapes : Step(shape)
  BY <1>1 DEF Next, Finish, vars
<1>. DEFINE all == AllAfter(shape)
<1>3. rounds' = all /\ sims' = [j \in Keys |-> SimAfter(j, shape)]
  BY <1>2, StepIs
<1>4. sims'[k] = Evaluate(Specs[k], sims[k], all)
  BY <1>1, <1>3 DEF SimAfter
<1>5. IsRounds(market, all)
  BY RoundsStep DEF BaseInv
<1>6. /\ \A n \in DOMAIN rounds : n \in DOMAIN all /\ all[n] = rounds[n]
      /\ all # rounds => all # << >>
  BY AllAfterIsMore DEF BaseInv
<1>7. all # << >> /\ Timed(Last(all)) /\ other \in Hindsights(k, all)
  BY <1>1, <1>3, <1>6
<1>8. OnRounds(sims[k], all)
  <2>1. Based(sims[k], all)
    BY <1>6, BasedOnMore DEF BaseInv
  <2>. QED  BY <2>1 DEF Based
<1>. HIDE DEF all
<1>9. market # "PANCAKESWAP_V1"
  <2>1. Last(all) = all[Len(all)] /\ Len(all) \in DOMAIN all
    BY <1>5, <1>7, LastOf DEF IsRounds
  <2>. QED  BY <2>1, <1>5, <1>7, TimedIn DEF IsRounds
<1>10. /\ Similar(market, all, other, DecisionTime(Specs[k], Last(all)))
       /\ DecisionTime(Specs[k], Last(all)) \in Int
  BY <1>5, <1>7, <1>9, HindsightIsSimilar
<1>. QED  BY <1>4, <1>5, <1>7, <1>8, <1>9, <1>10, EvaluateAgrees

\* A replayed decision depends on nothing that was not known when it would have been taken: with
\* another result of the round bet on, and of any round still open at the decision time, the same
\* trades are settled and the same decision is made (context.ts, backtest.ts evaluate).
THEOREM DecisionsNeverLookAhead == Spec => NoLookAhead
<1>1. BaseInv /\ [Next]_vars =>
        [Len(rounds') > Len(rounds) /\ Timed(Last(rounds')) =>
           \A k \in Keys : \A other \in Hindsights(k, rounds') : sims'[k] = Evaluate(Specs[k], sims[k], other)]_vars
  BY NothingAhead
<1>. QED  BY <1>1, BaseAlways, PTL DEF Spec, NoLookAhead

-----------------------------------------------------------------------------
\* What a bet comes to.

LEMMA DivTyped ==
  ASSUME NEW a \in Nat, NEW b \in Nat \ {0}
  PROVE  a \div b \in Nat
  OBVIOUS

\* The treasury's fee is at most the pool.
LEMMA RewardTyped ==
  ASSUME NEW total \in Nat
  PROVE  Reward(total) \in Nat
<1>. DEFINE p == total * FeeBps
            q == p \div 10000
<1>1. p \in Nat /\ p <= total * 10000
  <2>1. FeeBps \in Nat /\ FeeBps <= 10000
    BY MarketAssumption DEF BPS_DENOMINATOR
  <2>. QED  BY <2>1
<1>. HIDE DEF p
<1>2. q \in Nat /\ q <= total
  BY <1>1
<1>. QED  BY <1>2 DEF Reward, BPS_DENOMINATOR, p

LEMMA PayoutTyped ==
  ASSUME NEW f, NEW r, IsRound(f, r), NEW d \in Directions, NEW stake \in Nat \ {0}
  PROVE  /\ simulatedPayout(r, r.outcome, d, stake) \in Nat
         /\ r.outcome = "CANCELLED" => simulatedPayout(r, r.outcome, d, stake) = stake
<1>. DEFINE pool == r.bullAmount + r.bearAmount + stake
            side == SideOf(r, d) + stake
            prize == stake * Reward(pool)
            paid == simulatedPayout(r, r.outcome, d, stake)
<1>1. pool \in Nat /\ side \in Nat \ {0} /\ r.outcome \in Outcomes
  BY DEF IsRound, SideOf
<1>2. \/ r.outcome = "CANCELLED" /\ paid = stake
      \/ r.outcome # "CANCELLED" /\ r.outcome # d /\ paid = 0
      \/ r.outcome # "CANCELLED" /\ r.outcome = d /\ paid = prize \div side
  <2>. HIDE DEF side, prize
  <2>. QED  BY Zenon DEF simulatedPayout, side, prize, pool
<1>. HIDE DEF pool, side, paid
<1>3. Reward(pool) \in Nat
  BY <1>1, RewardTyped
<1>4. prize \in Nat
  BY <1>3
<1>. HIDE DEF prize
<1>5. prize \div side \in Nat
  BY <1>1, <1>4, DivTyped
<1>. QED  BY <1>2, <1>5 DEF paid

\* Nothing has become of the bet e yet.
IsPending(e) ==
  e.status = "CONFIRMED" /\ e.settledAt = Null /\ e.result = Null /\ e.payout = Null /\ e.claimGasCost = Null

\* The bet e has become what the round r made of it.
IsResolved(e, r) ==
  /\ e.status = "SETTLED" /\ e.result = resultFor(r.outcome, e.direction) /\ e.settledAt = knownAt(r)
  /\ e.payout = simulatedPayout(r, r.outcome, e.direction, e.amount)
  /\ e.claimGasCost = IF resultFor(r.outcome, e.direction) = "LOST" THEN 0 ELSE GasPerClaim

\* As it was placed: on a side, with a stake the global limits allow.
IsBet(e) ==
  /\ e.epoch \in Nat \ {0} /\ e.direction \in Directions /\ e.amount \in Nat \ {0}
  /\ e.gasCost = GasPerBet /\ e.placedAt \in Int
  /\ WithinLimits(GlobalLimits, e.asked, e.amount)

\* What a resolved bet e adds to the books.
IsOutcome(e, r) ==
  /\ e.status = "SETTLED" /\ e.result \in TradeResults /\ e.settledAt \in Nat /\ e.settledAt = knownAt(r)
  /\ e.payout \in Nat /\ e.claimGasCost \in Nat /\ e.claimGasCost <= GasPerClaim
  /\ tradeNetPnl(e) = e.payout - e.amount - (GasPerBet + e.claimGasCost)
  /\ tradeNetPnl(e) \in Int
  /\ e.result = "REFUNDED" <=> r.outcome = "CANCELLED"
  /\ e.result = "REFUNDED" => tradeNetPnl(e) <= 0

LEMMA ResolvedTyped ==
  ASSUME NEW f, f # "PANCAKESWAP_V1", NEW r, IsRound(f, r), NEW e, IsBet(e), IsResolved(e, r)
  PROVE  IsOutcome(e, r)
<1>1. e.direction \in Directions /\ e.amount \in Nat \ {0} /\ e.gasCost = GasPerBet /\ GasPerBet \in Nat /\ GasPerClaim \in Nat
  BY AmountsAssumption DEF IsBet
<1>2. e.status = "SETTLED" /\ e.result = resultFor(r.outcome, e.direction) /\ e.settledAt = knownAt(r)
      /\ e.payout = simulatedPayout(r, r.outcome, e.direction, e.amount)
  BY DEF IsResolved
<1>3. /\ e.payout \in Nat
      /\ r.outcome = "CANCELLED" => e.payout = e.amount
  BY <1>1, <1>2, PayoutTyped
<1>4. e.claimGasCost \in Nat /\ e.claimGasCost <= GasPerClaim
  BY <1>1 DEF IsResolved
<1>5. e.settledAt \in Nat
  <2>1. HasTimes(r)
    BY TimesOf
  <2>. QED  BY <2>1, <1>2 DEF HasTimes
<1>6. e.result \in TradeResults /\ (e.result = "REFUNDED" <=> r.outcome = "CANCELLED")
  <2>1. \/ r.outcome = "CANCELLED" /\ e.result = "REFUNDED"
        \/ r.outcome # "CANCELLED" /\ r.outcome = e.direction /\ e.result = "WON"
        \/ r.outcome # "CANCELLED" /\ r.outcome # e.direction /\ e.result = "LOST"
    <3>1. e.direction # "CANCELLED"
      BY <1>1 DEF Directions
    <3>. QED  BY <3>1, <1>2, Zenon DEF resultFor
  <2>. QED  BY <2>1 DEF TradeResults
<1>7. tradeGrossPnl(e) = e.payout - e.amount
  BY <1>2, <1>3, NullAssumption DEF tradeGrossPnl
<1>8. tradeNetPnl(e) = e.payout - e.amount - (GasPerBet + e.claimGasCost)
  <2>. DEFINE gross == tradeGrossPnl(e)
  <2>1. gross \in Int /\ gross # Null
    BY <1>1, <1>3, <1>7, NullAssumption
  <2>2. OrZero(e.gasCost) = GasPerBet /\ OrZero(e.claimGasCost) = e.claimGasCost
    BY <1>1, <1>4, NullAssumption DEF OrZero
  <2>. HIDE DEF gross
  <2>3. tradeNetPnl(e) = gross - (GasPerBet + e.claimGasCost)
    BY <1>2, <2>1, <2>2 DEF tradeNetPnl, gross
  <2>. QED  BY <2>3, <1>7 DEF gross
<1>. QED  BY <1>1, <1>2, <1>3, <1>4, <1>5, <1>6, <1>8 DEF IsOutcome

-----------------------------------------------------------------------------
\* What a strategy asks for.

LEMMA MinOfTwo ==
  ASSUME NEW a \in Int, NEW b \in Int
  PROVE  Min({a, b}) \in {a, b} /\ Min({a, b}) <= a /\ Min({a, b}) <= b
<1>1. \E x \in {a, b} : \A y \in {a, b} : x <= y
  OBVIOUS
<1>. QED  BY <1>1 DEF Min

LEMMA MaxIs ==
  ASSUME NEW S \in SUBSET Int, IsFiniteSet(S), S # {}
  PROVE  Max(S) \in S /\ \A x \in S : x <= Max(S)
<1>. DEFINE a == Ascending(S)
            n == Cardinality(S)
<1>1. n \in Nat /\ \A k \in 1 .. n : a[k] \in S
  BY AscendingSorts
<1>2. \A x \in S : \E k \in 1 .. n : a[k] = x
  BY AscendingSorts
<1>3. \A j, k \in 1 .. n : j < k => a[j] < a[k]
  BY AscendingSorts
<1>. HIDE DEF a, n
<1>4. n \in 1 .. n
  <2>1. PICK x : x \in S
    OBVIOUS
  <2>2. PICK k \in 1 .. n : a[k] = x
    BY <1>2, <2>1
  <2>. QED  BY <1>1, <2>2
<1>6. ASSUME NEW x \in S PROVE x <= a[n]
  <2>1. PICK k \in 1 .. n : a[k] = x
    BY <1>2
  <2>2. CASE k = n
    BY <1>6, <2>1, <2>2
  <2>3. CASE k # n
    <3>1. k < n
      BY <1>1, <2>3
    <3>2. a[k] < a[n] /\ a[n] \in Int
      BY <1>1, <1>3, <1>4, <3>1
    <3>. QED  BY <2>1, <3>2
  <2>. QED  BY <2>2, <2>3
<1>5. \E x \in S : \A y \in S : x >= y
  <2>1. a[n] \in S
    BY <1>1, <1>4
  <2>. QED  BY <1>6, <2>1
<1>. QED  BY <1>5 DEF Max

NoStake(s) == s.stake = Null

LEMMA BuysAskNothing ==
  ASSUME NEW d
  PROVE  /\ NoStake(Skip) /\ NoStake(Buy(d)) /\ NoStake(manualOrder(d, [direction |-> d]))
         /\ \A hits, of : NoStake(BuyAt(d, hits, of))
  BY DEF Skip, Buy, BuyAt, manualOrder, NoStake

LEMMA MeasuredAsksNothing ==
  ASSUME NEW d, NEW same, NEW sample, NEW p
  PROVE  NoStake(Measured(d, same, sample, p))
<1>. DEFINE m == Measured(d, same, sample, p)
            few == sample < p.minSampleSize
            enough == sample >= p.minSampleSize
            weak == 100 * Magnitude(2 * same - sample) < 2 * sample * p.minEdge
            bet == IF 2 * same > sample THEN BuyAt(d, same, sample) ELSE BuyAt(opposite(d), sample - same, sample)
<1>1. m = CASE few -> Skip [] enough /\ weak -> Skip [] OTHER -> bet
  BY Zenon DEF Measured
<1>2. NoStake(Skip) /\ NoStake(bet)
  BY BuysAskNothing
<1>. HIDE DEF m, few, enough, weak, bet
<1>3. m \in {Skip, bet}
  BY <1>1, Zenon
<1>. QED  BY <1>2, <1>3 DEF m

\* The parameters of a recovery ladder.
LEMMA LadderParams ==
  ASSUME NEW p, validateParams("sequence-recovery", p)
  PROVE  p.ladder \in [1 .. 6 -> 1 .. 50] /\ p.maxRecoverySteps \in 1 .. 6 /\ p.recoveryCooldownRounds \in 0 .. 100
<1>1. paramSpecs("sequence-recovery") = sequenceRecoveryParams
  BY DEF paramSpecs
<1>2. {"ladder", "maxRecoverySteps", "recoveryCooldownRounds"} \subseteq DOMAIN sequenceRecoveryParams
      /\ sequenceRecoveryParams["ladder"] = [1 .. 6 -> 1 .. 50] /\ sequenceRecoveryParams["maxRecoverySteps"] = 1 .. 6
      /\ sequenceRecoveryParams["recoveryCooldownRounds"] = 0 .. 100
  BY DEF sequenceRecoveryParams
<1>. QED  BY <1>1, <1>2 DEF validateParams

LEMMA PercentTyped ==
  ASSUME NEW w \in Int, NEW n \in Int
  PROVE  (w * n) \div 100 \in Int
<1>. DEFINE p == w * n
<1>1. p \in Int
  OBVIOUS
<1>. HIDE DEF p
<1>. QED  BY <1>1 DEF p

\* Without a pool the ladder gives a fixed stake.
LEMMA LadderStakeTyped ==
  ASSUME NEW c, c.payouts = Null, c.bankroll \in Int, NEW d, NEW depth \in Nat, NEW prior,
         NEW p, validateParams("sequence-recovery", p)
  PROVE  LadderStake(c, d, depth, prior, p) \in Int
<1>. DEFINE index == Min({depth + 1, p.maxRecoverySteps})
            step == p.ladder[index]
            target == targetRecoveryStake(c, d, prior, p)
            fixed == IF p.stakeUnit = "BNB" THEN step ELSE (c.bankroll * step) \div 100
<1>1. p.ladder \in [1 .. 6 -> 1 .. 50] /\ p.maxRecoverySteps \in 1 .. 6
  BY LadderParams
<1>2. index \in 1 .. 6
  <2>. DEFINE a == depth + 1 b == p.maxRecoverySteps
  <2>1. a \in Int /\ b \in Int /\ a >= 1 /\ b \in 1 .. 6
    BY <1>1
  <2>. HIDE DEF a, b
  <2>2. Min({a, b}) \in {a, b} /\ Min({a, b}) <= a /\ Min({a, b}) <= b
    BY <2>1, MinOfTwo, Zenon
  <2>3. Min({a, b}) \in 1 .. 6
    BY <2>1, <2>2
  <2>. QED  BY <2>3 DEF a, b
<1>. HIDE DEF index
<1>3. step \in Int
  BY <1>1, <1>2
<1>. HIDE DEF step
<1>4. fixed \in Int
  <2>1. (c.bankroll * step) \div 100 \in Int
    BY <1>3, PercentTyped
  <2>. QED  BY <1>3, <2>1
<1>5. target = Null
  BY DEF targetRecoveryStake
<1>. HIDE DEF target, fixed
<1>6. LadderStake(c, d, depth, prior, p) = IF p.sizingMode # "TARGET_RECOVERY" \/ depth = 0 \/ target = Null THEN fixed ELSE target
  BY Zenon DEF LadderStake, index, step, target, fixed
<1>. QED  BY <1>4, <1>5, <1>6

\* The trades a strategy is shown of its own are finitely many.
HasTrades(c) == \E n \in Nat : DOMAIN c.ownTrades = 1 .. n

\* The losses of a list of trades, latest first, that no win is before.
LossesOf(own) ==
  {i \in DOMAIN own : own[i].result = "LOST" /\ \A j \in DOMAIN own : own[j].result = "WON" => i < j}

\* What a ladder makes of its trades: how many such losses, and which is the latest.
LEMMA LossesAre ==
  ASSUME NEW own, NEW n \in Nat, DOMAIN own = 1 .. n
  PROVE  LET lost == LossesSinceWin(own) IN
         /\ IsFiniteSet(LossesOf(own)) /\ LossesOf(own) \in SUBSET Int
         /\ Cardinality(LossesOf(own)) \in Nat /\ Len(lost) = Cardinality(LossesOf(own))
         /\ LossesOf(own) # {} => /\ lost # << >>
                                 /\ \E i \in LossesOf(own) : lost[1] = own[i] /\ \A j \in LossesOf(own) : i <= j
<1>. DEFINE wins == {k \in DOMAIN own : own[k].result = "WON"}
            before == {k \in DOMAIN own : \A win \in wins : k < win}
            I == {k \in before : own[k].result = "LOST"}
            lost == LossesSinceWin(own)
            order == Ascending(LossesOf(own))
            m == Cardinality(LossesOf(own))
<1>1. I = LossesOf(own)
  BY DEF LossesOf
<1>2. lost = Picked(own, LossesOf(own))
  <2>1. lost = Picked(own, I)
    BY DEF LossesSinceWin
  <2>. QED  BY <1>1, <2>1, Zenon
<1>3. LossesOf(own) \in SUBSET Int /\ IsFiniteSet(LossesOf(own))
  <2>1. LossesOf(own) \subseteq 1 .. n /\ IsFiniteSet(1 .. n)
    BY FS_Interval DEF LossesOf
  <2>2. IsFiniteSet(LossesOf(own))
    BY <2>1, FS_Subset
  <2>. QED  BY <2>1, <2>2
<1>4. /\ m \in Nat /\ DOMAIN order = 1 .. m
      /\ \A k \in 1 .. m : order[k] \in LossesOf(own)
      /\ \A x \in LossesOf(own) : \E k \in 1 .. m : order[k] = x
      /\ \A j, k \in 1 .. m : j < k <=> order[j] < order[k]
  BY <1>3, AscendingSorts
<1>. HIDE DEF I, lost, order, m
<1>5. lost = [k \in DOMAIN order |-> own[order[k]]]
  BY <1>2, Zenon DEF Picked, order
<1>6. lost = [k \in 1 .. m |-> own[order[k]]]
  BY <1>4, <1>5
<1>7. Len(lost) = m
  <2>. DEFINE R == Range(lost)
  <2>1. \A k \in 1 .. m : lost[k] \in R
    BY <1>6 DEF Range
  <2>. HIDE DEF R
  <2>2. lost \in Seq(R)
    BY <1>4, <1>6, <2>1
  <2>. QED  BY <1>4, <1>6, <2>2
<1>8. ASSUME LossesOf(own) # {}
      PROVE  lost # << >> /\ \E i \in LossesOf(own) : lost[1] = own[i] /\ \A j \in LossesOf(own) : i <= j
  <2>1. 1 \in 1 .. m
    BY <1>4, <1>8
  <2>2. lost[1] = own[order[1]] /\ order[1] \in LossesOf(own)
    BY <1>4, <1>6, <2>1
  <2>3. ASSUME NEW j \in LossesOf(own) PROVE order[1] <= j
    <3>1. PICK k \in 1 .. m : order[k] = j
      BY <1>4
    <3>2. order[1] \in Int /\ j \in Int
      BY <1>3, <2>2
    <3>3. k = 1 \/ 1 < k
      OBVIOUS
    <3>4. 1 < k => order[1] < order[k]
      BY <1>4, <2>1
    <3>. QED  BY <3>1, <3>2, <3>3, <3>4
  <2>4. lost # << >>
    BY <1>7, <2>1
  <2>. QED  BY <2>2, <2>3, <2>4
<1>. QED  BY <1>3, <1>4, <1>7, <1>8 DEF lost, m

LEMMA RecoveryAsksForSome ==
  ASSUME NEW c, c.payouts = Null, c.bankroll \in Int, HasTrades(c),
         NEW p, validateParams("sequence-recovery", p)
  PROVE  sequenceRecovery(c, p).stake \in Int \cup {Null}
<1>. DEFINE lost == LossesSinceWin(c.ownTrades)
            fresh == FreshEntry(c, p)
            ladder == LadderEntry(c, lost, p)
<1>1. Len(lost) \in Nat
  BY LossesAre DEF HasTrades
<1>2. fresh.stake \in Int
  <2>. DEFINE d == initialDirection(toSequence(c.history), p)
              stake == LadderStake(c, d, 0, 0, p)
  <2>1. stake \in Int
    BY LadderStakeTyped
  <2>2. fresh = [Buy(d) EXCEPT !.stake = stake]
    BY DEF FreshEntry
  <2>3. "stake" \in DOMAIN Buy(d)
    BY DEF Buy, BuyAt
  <2>. HIDE DEF d, stake, fresh
  <2>. QED  BY <2>1, <2>2, <2>3
<1>3. ladder.stake \in Int
  <2>. DEFINE s == toSequence(c.history)
              target == opposite(lost[1].direction)
              bet == Facing(target, p.confirmationAction = "FADE")
              est == streakContinuationEstimate(s, p.confirmationCount)
              stake == LadderStake(c, bet, Len(lost), Amounts(lost), p)
              blind == [Buy(bet) EXCEPT !.sample = 0, !.confidence = IF bet = target THEN 50 ELSE 100]
              counted == BuyAt(bet, IF bet = target THEN est.same ELSE est.sample - est.same, est.sample)
              odds == CASE est = Null -> Buy(bet) [] est # Null /\ est.sample = 0 -> blind [] OTHER -> counted
  <2>1. stake \in Int
    BY <1>1, LadderStakeTyped
  <2>2. ladder = [odds EXCEPT !.stake = stake]
    BY Zenon DEF LadderEntry
  <2>3. odds \in {Buy(bet), blind, counted}
    <3>. HIDE DEF blind, counted, est, bet
    <3>. QED  BY Zenon
  <2>4. "stake" \in DOMAIN Buy(bet) /\ "stake" \in DOMAIN blind /\ "stake" \in DOMAIN counted
    BY DEF Buy, BuyAt
  <2>. HIDE DEF odds, stake, ladder, blind, counted, bet
  <2>5. "stake" \in DOMAIN odds
    BY <2>3, <2>4
  <2>. QED  BY <2>1, <2>2, <2>5
<1>. HIDE DEF fresh, ladder
<1>. DEFINE exhausted == lost # << >> /\ Len(lost) >= p.maxRecoverySteps
            cooling == IF CoolingDown(c, lost, p) THEN Skip ELSE fresh
            climbing == IF Reversed(toSequence(c.history), opposite(lost[1].direction), p) THEN ladder ELSE Skip
<1>4. sequenceRecovery(c, p) = CASE lost = << >> -> fresh [] exhausted -> cooling [] OTHER -> climbing
  BY Zenon DEF sequenceRecovery, fresh, ladder
<1>. HIDE DEF lost
<1>5. sequenceRecovery(c, p) \in {fresh, ladder, Skip}
  BY <1>4, Zenon
<1>. QED  BY <1>2, <1>3, <1>5 DEF Skip

LEMMA WeighedAsksNothing ==
  ASSUME NEW score, NEW p
  PROVE  NoStake(Weighed(score, p))
<1>1. ASSUME NEW d, NEW confidence PROVE NoStake([Buy(d) EXCEPT !.confidence = confidence])
  BY DEF Buy, BuyAt, NoStake
<1>2. NoStake(Skip)
  BY DEF Skip, NoStake
<1>. QED  BY <1>1, <1>2, Zenon DEF Weighed

\* Only the ladder sizes its own bets.
LEMMA SignalTyped ==
  ASSUME NEW plugin \in Plugins, NEW p, validateParams(plugin, p),
         NEW c, c.payouts = Null, c.bankroll \in Int, HasTrades(c)
  PROVE  evaluate(plugin, c, p).stake \in Int \cup {Null}
<1>1. NoStake(Skip) /\ \A d : NoStake(Buy(d))
  BY BuysAskNothing
<1>2. CASE plugin = "follow-last-winner"
  <2>1. NoStake(followLastWinner(c, p))
    BY <1>1, Zenon DEF followLastWinner
  <2>. QED  BY <1>2, <2>1 DEF evaluate, NoStake
<1>3. CASE plugin = "momentum"
  <2>. DEFINE priced == SelectSeq(ended(c.history), LAMBDA r : r.closePrice # Null)
              closes == [n \in DOMAIN priced |-> priced[n].closePrice]
              window == SubSeq(closes, Len(closes) - p.window + 1, Len(closes))
              move == Last(window) - Head(window)
              steps == {Sign(window[n] - window[n - 1]) : n \in 2 .. p.window}
              few == Len(closes) < p.window
              up == Len(closes) >= p.window /\ steps \in {{1}, {0, 1}}
                    /\ 100 * Magnitude(move) >= p.minMovePct * Head(window)
              down == Len(closes) >= p.window /\ steps \in {{-1}, {0, -1}}
                      /\ 100 * Magnitude(move) >= p.minMovePct * Head(window)
  <2>1. momentum(c, p) = CASE few -> Skip [] up -> Buy("BULL") [] down -> Buy("BEAR") [] OTHER -> Skip
    BY Zenon DEF momentum
  <2>. HIDE DEF few, up, down
  <2>2. momentum(c, p) \in {Skip, Buy("BULL"), Buy("BEAR")}
    BY <2>1, Zenon
  <2>3. NoStake(momentum(c, p))
    BY <2>2, <1>1
  <2>. QED  BY <1>3, <2>3 DEF evaluate, NoStake
<1>4. CASE plugin = "streak-reversal"
  <2>1. NoStake(streakReversal(c, p))
    BY <1>1, Zenon DEF streakReversal
  <2>. QED  BY <1>4, <2>1 DEF evaluate, NoStake
<1>5. CASE plugin = "manual"
  <2>1. NoStake(manualOrder(c, p))
    BY DEF manualOrder, Buy, BuyAt, NoStake
  <2>. QED  BY <1>5, <2>1 DEF evaluate, NoStake
<1>6. CASE plugin = "persistence"
  <2>1. NoStake(persistence(c, p))
    BY <1>1, MeasuredAsksNothing, Zenon DEF persistence
  <2>. QED  BY <1>6, <2>1 DEF evaluate, NoStake
<1>7. CASE plugin = "reversal"
  <2>1. NoStake(reversalStrategy(c, p))
    BY <1>1, MeasuredAsksNothing, Zenon DEF reversalStrategy
  <2>. QED  BY <1>7, <2>1 DEF evaluate, NoStake
<1>8. CASE plugin = "alternation"
  <2>1. NoStake(alternationStrategy(c, p))
    BY <1>1, MeasuredAsksNothing, Zenon DEF alternationStrategy
  <2>. QED  BY <1>8, <2>1 DEF evaluate, NoStake
<1>9. CASE plugin \in {"markov", "transition-matrix"}
  <2>1. NoStake(markov(c, p))
    BY <1>1, MeasuredAsksNothing, Zenon DEF markov
  <2>2. NoStake(transitionMatrixStrategy(c, p))
    BY <2>1 DEF transitionMatrixStrategy
  <2>. QED  BY <1>9, <2>1, <2>2 DEF evaluate, NoStake
<1>10. CASE plugin = "sequence-recovery"
  BY <1>10, RecoveryAsksForSome DEF evaluate
<1>11. CASE plugin = "ensemble"
  <2>1. NoStake(ensemble(c, p))
    BY WeighedAsksNothing DEF ensemble
  <2>. QED  BY <1>11, <2>1 DEF evaluate, NoStake
<1>. QED  BY <1>2, <1>3, <1>4, <1>5, <1>6, <1>7, <1>8, <1>9, <1>10, <1>11 DEF Plugins, BUILTIN_STRATEGIES

\* What a strategy is shown in a replay: a bankroll, its own trades, and no pool.
IsShown(c) == c.payouts = Null /\ c.bankroll \in Int /\ HasTrades(c)

LEMMA ContextTyped ==
  ASSUME NEW cfg, NEW sim, sim.entries \in Seq(Range(sim.entries)), sim.cash \in Int, sim.exposure \in Int,
         NEW all, NEW now
  PROVE  IsShown(ContextAt(cfg, sim, all, now))
<1>. DEFINE before == Front(all)
            epoch == Last(all).epoch
            known == Picked(before, Known(before, epoch, now))
            price == RunningPrice(RoundBefore(before, epoch, now))
            c == ContextOf(cfg, sim, epoch, known, price)
            latest == LastN(sim.entries, OWN_TRADES_LOOKBACK)
            I == {n \in DOMAIN latest : latest[n].epoch < epoch}
            own == OwnTrades(sim.entries, epoch)
<1>1. ContextAt(cfg, sim, all, now) = c
  BY ContextAtIs, Zenon
<1>. HIDE DEF known, price, epoch
<1>2. c.payouts = Null /\ c.bankroll = sim.cash + sim.exposure /\ DOMAIN c.ownTrades = DOMAIN own
  BY Zenon DEF ContextOf
<1>3. PICK m \in Nat : DOMAIN latest = 1 .. m
  <2>. DEFINE from == Max({1, Len(sim.entries) - OWN_TRADES_LOOKBACK + 1})
  <2>1. Len(sim.entries) \in Nat
    OBVIOUS
  <2>2. from \in Int
    <3>. DEFINE a == 1 b == Len(sim.entries) - OWN_TRADES_LOOKBACK + 1
    <3>1. a \in Int /\ b \in Int
      BY <2>1 DEF OWN_TRADES_LOOKBACK
    <3>. HIDE DEF a, b
    <3>2. Max({a, b}) \in {a, b}
      BY <3>1, MaxOfTwo, Zenon
    <3>3. Max({a, b}) \in Int
      BY <3>1, <3>2
    <3>. QED  BY <3>3 DEF a, b
  <2>3. latest = SubSeq(sim.entries, from, Len(sim.entries))
    BY DEF LastN
  <2>. HIDE DEF from, latest
  <2>. DEFINE size == IF Len(sim.entries) < from - 1 THEN 0 ELSE Len(sim.entries) - from + 1
  <2>4. DOMAIN latest = 1 .. Len(sim.entries) - from + 1
    BY <2>1, <2>2, <2>3
  <2>5. size \in Nat /\ 1 .. Len(sim.entries) - from + 1 = 1 .. size
    BY <2>1, <2>2
  <2>. QED  BY <2>4, <2>5
<1>4. I \in SUBSET Int /\ IsFiniteSet(I)
  <2>1. I \subseteq 1 .. m /\ IsFiniteSet(1 .. m)
    BY <1>3, FS_Interval
  <2>. HIDE DEF I
  <2>2. I \in SUBSET Int
    BY <2>1
  <2>3. IsFiniteSet(I)
    BY <2>1, FS_Subset
  <2>. QED  BY <2>2, <2>3
<1>5. own = Reverse(Picked(latest, I))
  BY DEF OwnTrades
<1>. HIDE DEF I, latest, own, c
<1>. DEFINE t == Picked(latest, I)
<1>6. Cardinality(I) \in Nat /\ DOMAIN t = 1 .. Cardinality(I) /\ t = [n \in DOMAIN t |-> t[n]]
  <2>1. Cardinality(I) \in Nat /\ DOMAIN t = 1 .. Cardinality(I)
    BY <1>4, AtTyped
  <2>. QED  BY <2>1 DEF Picked
<1>. HIDE DEF t
<1>7. DOMAIN own = 1 .. Cardinality(I)
  <2>1. t \in Seq(Range(t))
    BY <1>6 DEF Range
  <2>2. Len(t) = Cardinality(I)
    BY <1>6, <2>1
  <2>. QED  BY <1>5, <2>2 DEF Reverse, t
<1>8. c.bankroll \in Int
  BY <1>2
<1>. QED  BY <1>1, <1>2, <1>6, <1>7, <1>8 DEF IsShown, HasTrades

LEMMA OverridesTyped ==
  ASSUME NEW cfg, ValidConfig(cfg)
  PROVE  IsOverrides(strategyLimitOverrides(cfg))
<1>. DEFINE o == strategyLimitOverrides(cfg)
            All == LimitKeys \cup GlobalOnly \cup {"minSeconds"}
<1>1. \A k \in All : o[k] = IF k \in DOMAIN cfg.limits THEN cfg.limits[k]
                            ELSE IF k = "minSeconds" THEN cfg.minSeconds ELSE Null
  BY DEF strategyLimitOverrides
<1>2. (\A k \in DOMAIN cfg.limits : cfg.limits[k] \in Nat) /\ cfg.minSeconds \in Nat
  BY DEF ValidConfig
<1>3. \A k \in All : o[k] \in Optional
  BY <1>1, <1>2 DEF Optional
<1>. HIDE DEF o
<1>4. /\ {"maxStake", "escalationStake", "escalationStreak", "bankrollFraction", "maxDailyLoss",
          "maxConsecutiveLosses", "cooldownRounds", "maxExposure", "minBalance", "minConfidence",
          "minSeconds", "maxGasPrice", "stopLoss", "minEdge"} \subseteq All
  BY DEF LimitKeys, GlobalOnly
<1>5. o.minEdge \in Int \cup {Null}
  BY <1>3, <1>4 DEF Optional
<1>. QED  BY <1>3, <1>4, <1>5 DEF IsOverrides, o

LEMMA AskedTyped ==
  ASSUME NEW cfg, ValidConfig(cfg), NEW bankroll \in Int, NEW signal, signal.stake \in Int \cup {Null}
  PROVE  computeStake(cfg.sizing, bankroll, signal) \in Int
<1>. DEFINE part == mulWeiByFraction(Max({0, bankroll}), cfg.sizing.fraction)
            mode == cfg.sizing.mode
            own == mode = "SIGNAL" /\ signal.stake # Null /\ signal.stake > 0
<1>1. cfg.sizing.fixed \in Nat /\ cfg.sizing.fraction \in Nat
  BY ScaleAssumption DEF ValidConfig
<1>2. part \in Int
  <2>. DEFINE a == 0
  <2>1. a \in Int
    OBVIOUS
  <2>. HIDE DEF a
  <2>2. Max({a, bankroll}) \in {a, bankroll}
    BY <2>1, MaxOfTwo, Zenon
  <2>3. Max({a, bankroll}) \in Int
    BY <2>1, <2>2
  <2>. QED  BY <1>1, <2>3, FractionTyped DEF a
<1>3. computeStake(cfg.sizing, bankroll, signal) =
        CASE mode = "BANKROLL_FRACTION" -> part [] own -> signal.stake [] OTHER -> cfg.sizing.fixed
  BY Zenon DEF computeStake
<1>4. own => signal.stake \in Int
  OBVIOUS
<1>. HIDE DEF own, part, mode
<1>5. \/ computeStake(cfg.sizing, bankroll, signal) = part
      \/ own /\ computeStake(cfg.sizing, bankroll, signal) = signal.stake
      \/ computeStake(cfg.sizing, bankroll, signal) = cfg.sizing.fixed
  BY <1>3, Zenon
<1>. QED  BY <1>1, <1>2, <1>4, <1>5

-----------------------------------------------------------------------------
\* A simulation: its ledger and its account.

\* Every entry is a bet, pending or resolved on its round, and of a later round than those before it.
IsLedger(entries, all) ==
  /\ \A n \in DOMAIN entries : /\ IsBet(entries[n])
                               /\ IsPending(entries[n]) \/ IsResolved(entries[n], RoundAt(all, entries[n].epoch))
  /\ \A m, n \in DOMAIN entries : m < n => entries[m].epoch < entries[n].epoch

IsAccount(sim) ==
  /\ sim.cash \in Int /\ sim.exposure \in Int /\ sim.netPnl \in Int
  /\ sim.daily \in [0 .. LastDay -> Int]
  /\ sim.lossStreak \in Nat /\ sim.lastLoss \in Int \cup {Null}

\* Bets are made on rounds with times only.
SimInv(f, sim, all) ==
  /\ Based(sim, all) /\ IsLedger(sim.entries, all) /\ IsAccount(sim)
  /\ sim.entries # << >> => f # "PANCAKESWAP_V1"

\* The round of a bet.
LEMMA RoundOf ==
  ASSUME NEW f, NEW all, IsRounds(f, all), NEW sim, OnRounds(sim, all), NEW n \in DOMAIN sim.entries
  PROVE  LET r == RoundAt(all, sim.entries[n].epoch) IN
         r.epoch = sim.entries[n].epoch /\ IsRound(f, r) /\ \E m \in DOMAIN all : all[m] = r
<1>1. PICK m \in DOMAIN all : all[m].epoch = sim.entries[n].epoch
  BY DEF OnRounds
<1>2. RoundAt(all, all[m].epoch) = all[m]
  BY RoundAtIs
<1>. QED  BY <1>1, <1>2 DEF IsRounds

\* The resolved bets of a ledger, and what is known of them.
ClosedIn(entries) == {n \in DOMAIN entries : entries[n].status = "SETTLED"}

LEMMA LedgerTyped ==
  ASSUME NEW f, NEW all, IsRounds(f, all), NEW sim, SimInv(f, sim, all)
  PROVE  /\ IsFiniteSet(DOMAIN sim.entries) /\ DOMAIN sim.entries = 1 .. Len(sim.entries) /\ Len(sim.entries) \in Nat
         /\ DOMAIN sim.entries \in SUBSET Int
         /\ Pending(sim) = DOMAIN sim.entries \ ClosedIn(sim.entries)
         /\ \A n \in Pending(sim) : IsPending(sim.entries[n])
         /\ \A n \in ClosedIn(sim.entries) :
              /\ IsResolved(sim.entries[n], RoundAt(all, sim.entries[n].epoch))
              /\ IsOutcome(sim.entries[n], RoundAt(all, sim.entries[n].epoch))
<1>. DEFINE entries == sim.entries
<1>1. entries \in Seq(Range(entries)) /\ OnRounds(sim, all)
  BY DEF SimInv, Based, IsSim
<1>2. DOMAIN entries = 1 .. Len(entries) /\ Len(entries) \in Nat /\ DOMAIN entries \in SUBSET Int
  BY <1>1
<1>3. IsFiniteSet(DOMAIN entries)
  BY <1>2, FS_Interval
<1>4. \A n \in DOMAIN entries : IsBet(entries[n])
                                /\ (IsPending(entries[n]) \/ IsResolved(entries[n], RoundAt(all, entries[n].epoch)))
  BY DEF SimInv, IsLedger
<1>5. ASSUME NEW n \in ClosedIn(entries)
      PROVE  IsResolved(entries[n], RoundAt(all, entries[n].epoch)) /\ IsOutcome(entries[n], RoundAt(all, entries[n].epoch))
  <2>. DEFINE r == RoundAt(all, entries[n].epoch)
  <2>1. n \in DOMAIN entries /\ entries[n].status = "SETTLED"
    BY DEF ClosedIn
  <2>2. IsResolved(entries[n], r) /\ IsBet(entries[n])
    BY <1>4, <2>1 DEF IsPending
  <2>3. f # "PANCAKESWAP_V1"
    <3>1. entries # << >>
      BY <1>2, <2>1
    <3>. QED  BY <3>1 DEF SimInv
  <2>4. IsRound(f, r)
    BY <1>1, <2>1, RoundOf
  <2>. QED  BY <2>2, <2>3, <2>4, ResolvedTyped
<1>6. Pending(sim) = DOMAIN entries \ ClosedIn(entries) /\ \A n \in Pending(sim) : IsPending(entries[n])
  BY <1>4 DEF Pending, ClosedIn, IsPending, IsResolved
<1>. QED  BY <1>2, <1>3, <1>5, <1>6

\* What settling does to the ledger: the bets that are due become resolved, the others stay.
LEMMA SettledLedger ==
  ASSUME NEW f, NEW all, IsRounds(f, all), NEW sim, SimInv(f, sim, all), NEW t
  PROVE  LET s == settleUpTo(sim, all, t) due == Due(sim, all, t) IN
         /\ IsLedger(s.entries, all) /\ Based(s, all)
         /\ due \subseteq Pending(sim) /\ ClosedIn(s.entries) = ClosedIn(sim.entries) \cup due
         /\ \A n \in DOMAIN sim.entries \ due : s.entries[n] = sim.entries[n]
         /\ \A n \in due : /\ IsResolved(s.entries[n], RoundAt(all, s.entries[n].epoch))
                           /\ IsOutcome(s.entries[n], RoundAt(all, s.entries[n].epoch))
         /\ IsBooking(s, sim, s.entries, due)
<1>. DEFINE s == settleUpTo(sim, all, t)
            due == Due(sim, all, t)
            old == sim.entries
            new == s.entries
<1>1. IsSim(sim) /\ Based(sim, all)
  BY DEF SimInv, Based
<1>2. /\ new = SettledEntries(sim, all, t) /\ DOMAIN new = DOMAIN old
      /\ \A n \in DOMAIN old : /\ new[n].epoch = old[n].epoch /\ new[n].direction = old[n].direction
                               /\ new[n].amount = old[n].amount /\ new[n].placedAt = old[n].placedAt
                               /\ new[n].gasCost = old[n].gasCost /\ new[n].asked = old[n].asked
  BY <1>1, SettlingKeepsEntries
<1>3. Based(s, all)
  BY <1>1, SettlingBased
<1>4. IsBooking(s, sim, new, due)
  <2>1. s = Booked(sim, new, due) /\ DOMAIN sim = SimFields
    BY <1>1, <1>2, SettlingBooks, Zenon DEF IsSim
  <2>2. IsBooking(Booked(sim, new, due), sim, new, due)
    BY <2>1, BookedFields, Zenon
  <2>. QED  BY <2>1, <2>2, Zenon
<1>5. due \subseteq Pending(sim) /\ due \subseteq DOMAIN old
  BY DEF Due, Pending
<1>6. \A n \in DOMAIN old : new[n] = IF n \in due THEN Settled(old[n], RoundAt(all, old[n].epoch)) ELSE old[n]
  BY <1>2 DEF SettledEntries
<1>. HIDE DEF s, due
<1>7. ASSUME NEW n \in due
      PROVE  IsResolved(new[n], RoundAt(all, new[n].epoch))
  <2>1. n \in DOMAIN old /\ DOMAIN old[n] = EntryFields
    BY <1>1, <1>5 DEF IsSim
  <2>2. new[n] = Settled(old[n], RoundAt(all, old[n].epoch))
    BY <1>6, <2>1
  <2>3. IsSettled(new[n], old[n], RoundAt(all, old[n].epoch))
    BY <2>1, <2>2, SettledFields, Zenon
  <2>. HIDE DEF new, old
  <2>. QED  BY <2>3, Zenon DEF IsSettled, IsResolved
<1>8. \A n \in DOMAIN old \ due : new[n] = old[n]
  BY <1>6
<1>9. \A n \in DOMAIN old : IsBet(new[n])
  BY <1>2 DEF SimInv, IsLedger, IsBet
<1>10. IsLedger(new, all)
  <2>1. \A n \in DOMAIN new : IsPending(new[n]) \/ IsResolved(new[n], RoundAt(all, new[n].epoch))
    <3>. SUFFICES ASSUME NEW n \in DOMAIN old
                  PROVE  IsPending(new[n]) \/ IsResolved(new[n], RoundAt(all, new[n].epoch))
      BY <1>2
    <3>1. IsPending(old[n]) \/ IsResolved(old[n], RoundAt(all, old[n].epoch))
      BY DEF SimInv, IsLedger
    <3>. QED  BY <3>1, <1>7, <1>8
  <2>2. \A m, n \in DOMAIN new : m < n => new[m].epoch < new[n].epoch
    BY <1>2 DEF SimInv, IsLedger
  <2>. QED  BY <1>2, <1>9, <2>1, <2>2 DEF IsLedger
<1>11. ClosedIn(new) = ClosedIn(old) \cup due
  <2>1. \A n \in due : new[n].status = "SETTLED"
    BY <1>7 DEF IsResolved
  <2>. QED  BY <1>2, <1>5, <1>8, <2>1 DEF ClosedIn
<1>12. ASSUME NEW n \in due PROVE IsOutcome(new[n], RoundAt(all, new[n].epoch))
  <2>1. n \in DOMAIN new /\ IsBet(new[n]) /\ IsResolved(new[n], RoundAt(all, new[n].epoch))
    BY <1>2, <1>5, <1>7, <1>9
  <2>2. f # "PANCAKESWAP_V1"
    <3>1. sim.entries # << >>
      BY <1>5
    <3>. QED  BY <3>1 DEF SimInv
  <2>3. IsRound(f, RoundAt(all, new[n].epoch))
    BY <1>3, <2>1, RoundOf DEF Based
  <2>. QED  BY <2>1, <2>2, <2>3, ResolvedTyped
<1>. QED  BY <1>3, <1>4, <1>5, <1>7, <1>8, <1>10, <1>11, <1>12 DEF s, due

LEMMA LossStreakTyped ==
  ASSUME NEW streak \in Nat, NEW won, IsFiniteSet(won), NEW lost, IsFiniteSet(lost)
  PROVE  lossStreakAfter(streak, won, lost) \in Nat
<1>. DEFINE after == {n \in lost : n > Max(won)}
<1>1. IsFiniteSet(after)
  BY FS_Subset
<1>. HIDE DEF after
<1>2. Cardinality(after) \in Nat /\ Cardinality(lost) \in Nat
  BY <1>1, FS_CardinalityType
<1>. QED  BY <1>2 DEF lossStreakAfter, after

\* Settling keeps the account an account.
LEMMA SettlingKeeps ==
  ASSUME NEW f, NEW all, IsRounds(f, all), NEW sim, SimInv(f, sim, all), NEW t
  PROVE  SimInv(f, settleUpTo(sim, all, t), all)
<1>. DEFINE s == settleUpTo(sim, all, t)
            due == Due(sim, all, t)
            new == s.entries
<1>1. /\ IsLedger(new, all) /\ Based(s, all) /\ due \subseteq Pending(sim)
      /\ \A n \in due : IsOutcome(new[n], RoundAt(all, new[n].epoch))
  BY SettledLedger
<1>2. IsBooking(s, sim, new, due)
  BY SettledLedger
<1>3. DOMAIN new = DOMAIN sim.entries /\ (new = << >> <=> sim.entries = << >>)
      /\ \A n \in DOMAIN new : new[n].epoch \in Int /\ new[n].amount \in Int
  <2>1. IsSim(sim)
    BY DEF SimInv, Based
  <2>2. DOMAIN new = DOMAIN sim.entries /\ Len(new) = Len(sim.entries)
    BY <2>1, SettlingKeepsEntries
  <2>3. new \in Seq(Range(new)) /\ sim.entries \in Seq(Range(sim.entries))
    BY <1>1, <2>1 DEF Based, IsSim
  <2>4. new = << >> <=> sim.entries = << >>
    BY <2>2, <2>3
  <2>. QED  BY <1>1, <2>2, <2>4 DEF IsLedger, IsBet
<1>4. DOMAIN sim.entries = 1 .. Len(sim.entries) /\ Len(sim.entries) \in Nat
  BY LedgerTyped
<1>5. due \subseteq DOMAIN sim.entries /\ due \in SUBSET Int
  BY <1>1, <1>4 DEF Pending
<1>6. IsFiniteSet(due)
  <2>1. IsFiniteSet(DOMAIN sim.entries)
    BY LedgerTyped
  <2>. HIDE DEF due
  <2>. QED  BY <1>5, <2>1, FS_Subset
<1>7. IsAccount(sim)
  BY DEF SimInv
<1>. HIDE DEF s, due
<1>8. ASSUME NEW D \in SUBSET due
      PROVE  /\ IsFiniteSet(D) /\ Sum(NetOf(new, due), D) \in Int
             /\ Sum(BackOf(new, due), D) \in Int /\ Sum(StakesOf(new, due), D) \in Int
  <2>1. IsFiniteSet(D)
    BY <1>6, FS_Subset
  <2>2. \A n \in D : NetOf(new, due)[n] \in Int
    BY <1>1 DEF NetOf, IsOutcome
  <2>3. \A n \in D : BackOf(new, due)[n] \in Int
    BY <1>1 DEF BackOf, IsOutcome
  <2>4. \A n \in D : StakesOf(new, due)[n] \in Int
    BY <1>3, <1>5 DEF StakesOf
  <2>. QED  BY <2>1, <2>2, <2>3, <2>4, SumIsInt
<1>9. s.cash \in Int /\ s.exposure \in Int /\ s.netPnl \in Int
  <2>1. /\ Sum(NetOf(new, due), due) \in Int
        /\ Sum(BackOf(new, due), due) \in Int /\ Sum(StakesOf(new, due), due) \in Int
    BY <1>8
  <2>. QED  BY <2>1, <1>2, <1>7 DEF IsBooking, IsAccount
<1>10. s.daily \in [0 .. LastDay -> Int]
  <2>1. \A d \in 0 .. LastDay : Sum(NetOf(new, due), OnDay(new, due, d)) \in Int
    BY <1>8 DEF OnDay
  <2>2. sim.daily \in [0 .. LastDay -> Int]
    BY <1>7 DEF IsAccount
  <2>. DEFINE more == [d \in 0 .. LastDay |-> Sum(NetOf(new, due), OnDay(new, due, d))]
  <2>3. s.daily = [d \in 0 .. LastDay |-> sim.daily[d] + more[d]]
    BY <2>2, <1>2 DEF IsBooking
  <2>4. \A d \in 0 .. LastDay : more[d] \in Int
    BY <2>1
  <2>. HIDE DEF more
  <2>. DEFINE D == 0 .. LastDay
  <2>. HIDE DEF D
  <2>5. \A d \in D : sim.daily[d] \in Int /\ more[d] \in Int
    BY <2>2, <2>4 DEF D
  <2>6. \A d \in D : sim.daily[d] + more[d] \in Int
    BY <2>5
  <2>. QED  BY <2>3, <2>6, Zenon DEF D
<1>11. s.lossStreak \in Nat
  <2>. DEFINE won == WonIn(new, due) lost == LostIn(new, due)
  <2>1. IsFiniteSet(won) /\ IsFiniteSet(lost)
    BY <1>8 DEF WonIn, LostIn
  <2>. HIDE DEF won, lost
  <2>2. lossStreakAfter(sim.lossStreak, won, lost) \in Nat
    BY <2>1, <1>7, LossStreakTyped DEF IsAccount
  <2>. QED  BY <2>2, <1>2 DEF IsBooking, won, lost
<1>12. s.lastLoss \in Int \cup {Null}
  <2>. DEFINE lost == LostIn(new, due)
  <2>1. IsFiniteSet(lost) /\ lost \subseteq due
    BY <1>8 DEF LostIn
  <2>. HIDE DEF lost
  <2>2. s.lastLoss = IF lost = {} THEN sim.lastLoss ELSE new[Max(lost)].epoch
    BY <1>2 DEF IsBooking, lost
  <2>3. CASE lost = {}
    BY <2>2, <2>3, <1>7 DEF IsAccount
  <2>4. CASE lost # {}
    <3>1. Max(lost) \in lost
      BY <2>1, <2>4, <1>5, MaxIs
    <3>. QED  BY <2>1, <2>2, <2>4, <3>1, <1>3, <1>5
  <2>. QED  BY <2>3, <2>4
<1>13. IsAccount(s)
  BY <1>9, <1>10, <1>11, <1>12 DEF IsAccount
<1>14. new # << >> => f # "PANCAKESWAP_V1"
  BY <1>3 DEF SimInv
<1>. QED  BY <1>1, <1>13, <1>14 DEF SimInv, s

-----------------------------------------------------------------------------
\* The decision on a round, and the bet it makes.

LEMMA DayTyped ==
  ASSUME NEW a \in Nat, NEW b \in Nat, a <= b
  PROVE  utcDay(a) \in Nat /\ utcDay(b) \in Nat /\ utcDay(a) <= utcDay(b)
  BY DayAssumption DEF utcDay

\* Every time of the replay is within its days.
LEMMA DayOfReplay ==
  ASSUME NEW r, HasTimes(r), r.epoch <= MaxRounds, NEW t \in Nat, t <= r.closeTime + BufferSeconds
  PROVE  utcDay(t) \in 0 .. LastDay
<1>. DEFINE end == (2 * MaxRounds + 3) * Interval + BufferSeconds
<1>1. r.epoch * Interval <= MaxRounds * Interval /\ r.epoch * Interval \in Nat /\ MaxRounds * Interval \in Nat
  BY TimesAssumption DEF HasTimes
<1>2. (2 * MaxRounds + 3) * Interval = 2 * (MaxRounds * Interval) + 3 * Interval
  BY TimesAssumption
<1>3. end \in Nat /\ t <= end
  BY <1>1, <1>2, TimesAssumption, MarketAssumption DEF HasTimes
<1>. HIDE DEF end
<1>4. utcDay(t) \in Nat /\ utcDay(end) \in Nat /\ utcDay(t) <= utcDay(end)
  BY <1>3, DayTyped
<1>. QED  BY <1>4 DEF LastDay, end

\* What is known of a bet that is decided.
IsTrade(d, s, now) ==
  /\ d.direction \in Directions /\ d.stake \in Nat \ {0}
  /\ WithinLimits(GlobalLimits, d.asked, d.stake)
  /\ d.asked.state.dailyNetPnl = s.daily[utcDay(now)]

LEMMA DecisionTyped ==
  ASSUME NEW f, f # "PANCAKESWAP_V1", NEW all, IsRounds(f, all), all # << >>, Last(all).epoch <= MaxRounds,
         NEW cfg, ValidConfig(cfg), cfg.plugin \in Plugins,
         NEW s, SimInv(f, s, all),
         LET now == DecisionTime(cfg, Last(all)) IN DecisionAt(cfg, s, all, now).kind = "TRADE"
  PROVE  LET now == DecisionTime(cfg, Last(all)) IN IsTrade(DecisionAt(cfg, s, all, now), s, now)
<1>. DEFINE round == Last(all)
            now == DecisionTime(cfg, round)
            signal == evaluate(cfg.plugin, ContextAt(cfg, s, all, now), cfg.params)
            state == RiskStateAt(s, round, now)
            limits == Limits(cfg)
            i == [mode |-> "BACKTEST", config |-> cfg, limits |-> limits, state |-> state, gates |-> << >>,
                  minBet |-> MinBet, pool |-> Null, costs |-> Null]
            d == DecisionAt(cfg, s, all, now)
            side == signalDirection(signal.action)
            stake == computeStake(cfg.sizing, state.bankroll, signal)
            asked == [mode |-> "BACKTEST", stake |-> stake, confidence |-> signal.confidence, edge |-> Null,
                      minBet |-> MinBet, limits |-> limits, state |-> state, gates |-> << >>]
            risk == evaluateRisk(asked)
<1>1. IsRound(f, round)
  BY LastOf DEF IsRounds
<1>2. now \in Nat /\ round.startTime <= now /\ now < round.closeTime /\ HasTimes(round)
  BY <1>1, DecisionTimeTyped, TimesOf
<1>3. IsAccount(s) /\ s.entries \in Seq(Range(s.entries)) /\ GasPerBet \in Nat /\ MinBet \in Nat
  BY AmountsAssumption DEF SimInv, Based, IsSim
<1>. HIDE DEF now
<1>4. IsShown(ContextAt(cfg, s, all, now))
  BY <1>3, ContextTyped DEF IsAccount
<1>5. signal.stake \in Int \cup {Null}
  <2>1. validateParams(cfg.plugin, cfg.params)
    BY DEF ValidConfig
  <2>. QED  BY <1>4, <2>1, SignalTyped DEF IsShown
<1>6. /\ state.bankroll = s.cash + s.exposure /\ state.available = s.cash /\ state.exposure = s.exposure
      /\ state.dailyNetPnl = s.daily[utcDay(now)] /\ state.strategyNetPnl = s.netPnl /\ state.lossStreak = s.lossStreak
      /\ state.roundsSinceLastLoss = IF s.lastLoss = Null THEN Null ELSE round.epoch - s.lastLoss
      /\ state.secondsToLock = round.lockTime - now /\ state.gasPrice = Null /\ state.gasReserve = GasPerBet
  BY DEF RiskStateAt
<1>7. utcDay(now) \in 0 .. LastDay
  <2>1. now <= round.closeTime + BufferSeconds
    BY <1>2, MarketAssumption DEF HasTimes
  <2>. HIDE DEF round
  <2>. QED  BY <1>2, <2>1, DayOfReplay DEF round
<1>8. d = decide(i, signal)
  BY Zenon DEF DecisionAt
<1>. HIDE DEF signal, state, limits, d
<1>9. d = IF ~isValidSignal(signal) \/ signal.action = "SKIP" THEN NoTrade
          ELSE IF signal.action = "WAIT"
          THEN IF state.secondsToLock <= limits.minSeconds THEN NoTrade ELSE [NoTrade EXCEPT !.kind = "WAIT"]
          ELSE IF ~DirectionAllowed(cfg.directions, side) \/ ~risk.approved THEN NoTrade
          ELSE [kind |-> "TRADE", direction |-> side, stake |-> risk.stake, asked |-> asked]
  <2>1. /\ i.mode = "BACKTEST" /\ i.config = cfg /\ i.limits = limits /\ i.state = state
        /\ i.gates = << >> /\ i.minBet = MinBet /\ i.pool = Null
    BY Zenon
  <2>. HIDE DEF i
  <2>. QED  BY <1>8, <2>1, Zenon DEF decide
<1>. HIDE DEF risk, side, asked
<1>10. /\ isValidSignal(signal) /\ signal.action \notin {"SKIP", "WAIT"} /\ risk.approved
       /\ d.direction = side /\ d.stake = risk.stake /\ d.asked = asked
  <2>1. d.kind = "TRADE"
    BY DEF d, now, round
  <2>2. NoTrade.kind # "TRADE" /\ [NoTrade EXCEPT !.kind = "WAIT"].kind # "TRADE"
    BY DEF NoTrade
  <2>3. d \notin {NoTrade, [NoTrade EXCEPT !.kind = "WAIT"]}
    BY <2>1, <2>2
  <2>4. isValidSignal(signal) /\ signal.action \notin {"SKIP", "WAIT"} /\ risk.approved
        /\ d = [kind |-> "TRADE", direction |-> side, stake |-> risk.stake, asked |-> asked]
    BY <1>9, <2>3, Zenon
  <2>. QED  BY <2>4
<1>11. side \in Directions /\ signal.confidence \in Nat
  <2>. DEFINE a == signal.action
  <2>0. a \in {"BUY_UP", "BUY_DOWN", "WAIT", "SKIP"} /\ signal.confidence \in 0 .. 100
    <3>1. isValidSignal(signal)
      BY <1>10, Zenon
    <3>. QED  BY <3>1 DEF isValidSignal
  <2>1. a \in {"BUY_UP", "BUY_DOWN"} /\ signal.confidence \in Nat
    <3>1. a # "SKIP" /\ a # "WAIT"
      BY <1>10
    <3>. HIDE DEF a
    <3>2. a \in {"BUY_UP", "BUY_DOWN"}
      BY <2>0, <3>1, Zenon
    <3>3. \A c \in 0 .. 100 : c \in Nat
      OBVIOUS
    <3>. QED  BY <2>0, <3>2, <3>3, Zenon
  <2>2. a = "BUY_UP" => a # "BUY_DOWN"
    OBVIOUS
  <2>. HIDE DEF a
  <2>3. signalDirection(a) \in {"BULL", "BEAR"}
    BY <2>1, <2>2, Zenon DEF signalDirection
  <2>. QED  BY <2>1, <2>3 DEF side, Directions, a
<1>12. stake \in Int
  <2>1. state.bankroll \in Int
    BY <1>3, <1>6 DEF IsAccount
  <2>. HIDE DEF stake
  <2>. QED  BY <1>5, <2>1, AskedTyped DEF stake
<1>. HIDE DEF stake
<1>13. /\ asked.mode = "BACKTEST" /\ asked.stake = stake /\ asked.confidence = signal.confidence
       /\ asked.edge = Null /\ asked.minBet = MinBet /\ asked.limits = limits /\ asked.state = state
  BY Zenon DEF asked
<1>14. IsRequest(asked)
  <2>1. /\ state.bankroll \in Int /\ state.available \in Int /\ state.exposure \in Int /\ state.dailyNetPnl \in Int
        /\ state.strategyNetPnl \in Int /\ state.lossStreak \in Nat /\ state.secondsToLock \in Int
        /\ state.gasReserve \in Nat /\ state.gasPrice \in Optional
    <3>1. round.lockTime \in Int /\ now \in Int
      BY <1>2 DEF HasTimes
    <3>2. /\ s.cash \in Int /\ s.exposure \in Int /\ s.netPnl \in Int /\ s.lossStreak \in Nat
          /\ s.daily[utcDay(now)] \in Int
      BY <1>3, <1>7 DEF IsAccount
    <3>. HIDE DEF round
    <3>. QED  BY <3>1, <3>2, <1>3, <1>6 DEF Optional
  <2>2. state.roundsSinceLastLoss \in Int \cup {Null}
    BY <1>2, <1>3, <1>6 DEF IsAccount, HasTimes
  <2>. QED  BY <1>3, <1>11, <1>12, <1>13, <2>1, <2>2 DEF IsRequest
<1>15. IsOverrides(strategyLimitOverrides(cfg)) /\ asked.limits = mergeLimits(GlobalLimits, strategyLimitOverrides(cfg))
  BY <1>13, OverridesTyped DEF limits, Limits
<1>16. WithinLimits(GlobalLimits, asked, risk.stake)
  BY <1>10, <1>14, <1>15, LimitsAssumption, ApprovedIsWithinLimits DEF risk
<1>17. risk.stake \in Nat \ {0}
  <2>1. IsLimits(asked.limits)
    BY <1>15, LimitsAssumption, MergeTightens
  <2>2. risk.stake = Stake(asked.limits, asked.state, asked.stake)
    BY DEF risk, evaluateRisk
  <2>3. risk.stake \in Int
    BY <1>14, <2>1, <2>2, StakeIsCapped
  <2>4. Passes("MIN_BET", GlobalLimits, asked, risk.stake)
    BY <1>16 DEF WithinLimits, Rules
  <2>5. risk.stake > 0
    BY <2>4 DEF Passes
  <2>. QED  BY <2>3, <2>5
<1>18. asked.state.dailyNetPnl = s.daily[utcDay(now)]
  BY <1>6, <1>13
<1>. QED  BY <1>10, <1>11, <1>16, <1>17, <1>18 DEF IsTrade, d, now, round
\* p is the simulation s with the bet e placed on the round, at the time now.
IsBetting(p, s, e, round, now) ==
  /\ DOMAIN p = SimFields /\ p.entries = Append(s.entries, e)
  /\ p.cash = s.cash - (e.amount + GasPerBet) /\ p.exposure = s.exposure + e.amount
  /\ p.lossStreak = s.lossStreak /\ p.lastLoss = s.lastLoss /\ p.daily = s.daily /\ p.netPnl = s.netPnl
  /\ IsBet(e) /\ IsPending(e) /\ DOMAIN e = EntryFields /\ e.epoch = round.epoch /\ e.placedAt = now
  /\ e.asked.state.dailyNetPnl = s.daily[utcDay(now)]

\* A step of a simulation settles what has become known, and may place a bet.
LEMMA EvaluateIs ==
  ASSUME NEW f, f # "PANCAKESWAP_V1", NEW all, IsRounds(f, all), all # << >>, Last(all).epoch <= MaxRounds,
         NEW cfg, ValidConfig(cfg), cfg.plugin \in Plugins,
         NEW sim, SimInv(f, sim, all)
  PROVE  LET now == DecisionTime(cfg, Last(all))
             s == settleUpTo(sim, all, now)
             p == Evaluate(cfg, sim, all)
         IN  p = s \/ \E e : IsBetting(p, s, e, Last(all), now)
<1>. DEFINE round == Last(all)
            now == DecisionTime(cfg, round)
            s == settleUpTo(sim, all, now)
            d == DecisionAt(cfg, s, all, now)
            p == Placed(s, d, round, now)
            e == Entry(d, round, now)
<1>1. SimInv(f, s, all) /\ DOMAIN s = SimFields
  <2>1. SimInv(f, s, all)
    BY SettlingKeeps
  <2>. QED  BY <2>1 DEF SimInv, Based, IsSim
<1>2. Evaluate(cfg, sim, all) = p
  BY Zenon DEF Evaluate
<1>3. d.kind = "TRADE" => IsTrade(d, s, now)
  <2>. HIDE DEF s
  <2>. QED  BY <1>1, DecisionTyped
<1>4. now \in Nat /\ round.epoch \in Nat \ {0}
  <2>1. IsRound(f, round)
    BY LastOf DEF IsRounds
  <2>. QED  BY <2>1, DecisionTimeTyped DEF IsRound
<1>. HIDE DEF s, d, now
<1>5. CASE d.kind # "TRADE"
  <2>1. p = s
    BY <1>5, Zenon DEF Placed
  <2>. QED  BY <1>2, <2>1 DEF s, now
<1>6. CASE d.kind = "TRADE"
  <2>1. IsPlaced(p, s, d, round, now)
    BY <1>1, <1>6, PlacedFields, Zenon
  <2>2. IsEntryOf(e, d, round, now)
    BY EntryFieldsAre
  <2>. HIDE DEF p, e, round
  <2>3. d.direction \in Directions /\ d.stake \in Nat \ {0} /\ WithinLimits(GlobalLimits, d.asked, d.stake)
        /\ d.asked.state.dailyNetPnl = s.daily[utcDay(now)]
    BY <1>3, <1>6 DEF IsTrade
  <2>4. e.amount = d.stake /\ e.asked = d.asked /\ e.direction = d.direction /\ e.epoch = round.epoch
        /\ e.placedAt = now /\ e.gasCost = GasPerBet /\ DOMAIN e = EntryFields
    BY <2>2, Zenon DEF IsEntryOf
  <2>5. IsBet(e)
    <3>1. e.epoch \in Nat \ {0} /\ e.direction \in Directions /\ e.amount \in Nat \ {0} /\ e.placedAt \in Int
      BY <1>4, <2>3, <2>4
    <3>2. WithinLimits(GlobalLimits, e.asked, e.amount)
      BY <2>3, <2>4, Zenon
    <3>. QED  BY <3>1, <3>2, <2>4, Zenon DEF IsBet
  <2>6. IsPending(e)
    BY <2>2, Zenon DEF IsEntryOf, IsPending
  <2>7. e.asked.state.dailyNetPnl = s.daily[utcDay(now)]
    BY <2>3, <2>4, Zenon
  <2>8. /\ DOMAIN p = SimFields /\ p.entries = Append(s.entries, e)
        /\ p.cash = s.cash - (e.amount + GasPerBet) /\ p.exposure = s.exposure + e.amount
    BY <2>1, <2>4, Zenon DEF IsPlaced, e
  <2>9. p.lossStreak = s.lossStreak /\ p.lastLoss = s.lastLoss /\ p.daily = s.daily /\ p.netPnl = s.netPnl
    BY <2>1, Zenon DEF IsPlaced
  <2>10. IsBetting(p, s, e, round, now)
    BY <2>4, <2>5, <2>6, <2>7, <2>8, <2>9, Zenon DEF IsBetting
  <2>. QED  BY <1>2, <2>10, Zenon DEF s, now, round
<1>. QED  BY <1>5, <1>6

\* The ledger `new` is `old` with the entry e more.
IsExtended(new, old, e) ==
  /\ DOMAIN new = (DOMAIN old) \cup {Len(old) + 1} /\ Len(old) \in Nat /\ DOMAIN old = 1 .. Len(old)
  /\ new[Len(old) + 1] = e /\ \A n \in DOMAIN old : new[n] = old[n]

\* A bet on a round later than the others keeps the ledger.
LEMMA BettingKeeps ==
  ASSUME NEW f, f # "PANCAKESWAP_V1", NEW all, NEW s, SimInv(f, s, all), NEW m \in DOMAIN all,
         \A n \in DOMAIN s.entries : s.entries[n].epoch < all[m].epoch,
         NEW p, NEW e, NEW now, IsBetting(p, s, e, all[m], now)
  PROVE  SimInv(f, p, all) /\ IsExtended(p.entries, s.entries, e)
<1>. DEFINE old == s.entries
            new == p.entries
            last == Len(old) + 1
<1>1. old \in Seq(Range(old)) /\ OnRounds(s, all) /\ \A n \in DOMAIN old : DOMAIN old[n] = EntryFields
  BY DEF SimInv, Based, IsSim
<1>2. DOMAIN p = SimFields /\ new = Append(old, e) /\ DOMAIN e = EntryFields /\ e.epoch = all[m].epoch
      /\ IsBet(e) /\ IsPending(e)
  BY Zenon DEF IsBetting
<1>3. new \in Seq(Range(new)) /\ Len(old) \in Nat /\ DOMAIN old = 1 .. Len(old)
      /\ DOMAIN new = (DOMAIN old) \cup {last} /\ new[last] = e /\ \A n \in DOMAIN old : new[n] = old[n]
  BY <1>1, <1>2, AppendedEntry
<1>4. IsSim(p)
  BY <1>1, <1>2, <1>3 DEF IsSim
<1>5. OnRounds(p, all)
  BY <1>1, <1>2, <1>3 DEF OnRounds
<1>6. IsLedger(new, all)
  <2>1. \A n \in DOMAIN old : IsBet(old[n]) /\ (IsPending(old[n]) \/ IsResolved(old[n], RoundAt(all, old[n].epoch)))
    BY DEF SimInv, IsLedger
  <2>2. \A n \in DOMAIN new : IsBet(new[n]) /\ (IsPending(new[n]) \/ IsResolved(new[n], RoundAt(all, new[n].epoch)))
    BY <1>2, <1>3, <2>1
  <2>3. ASSUME NEW j \in DOMAIN new, NEW k \in DOMAIN new, j < k
        PROVE  new[j].epoch < new[k].epoch
    <3>1. j \in DOMAIN old
      BY <1>3, <2>3
    <3>2. CASE k \in DOMAIN old
      BY <3>1, <3>2, <2>3, <1>3 DEF SimInv, IsLedger
    <3>3. CASE k = last
      BY <3>1, <3>3, <1>2, <1>3
    <3>. QED  BY <1>3, <3>2, <3>3
  <2>. QED  BY <2>2, <2>3 DEF IsLedger
<1>7. IsAccount(p)
  <2>1. e.amount \in Int /\ GasPerBet \in Int
    BY <1>2, AmountsAssumption DEF IsBet
  <2>2. IsAccount(s)
    BY DEF SimInv
  <2>3. p.cash = s.cash - (e.amount + GasPerBet) /\ p.exposure = s.exposure + e.amount
        /\ p.lossStreak = s.lossStreak /\ p.lastLoss = s.lastLoss /\ p.daily = s.daily /\ p.netPnl = s.netPnl
    BY Zenon DEF IsBetting
  <2>. QED  BY <2>1, <2>2, <2>3 DEF IsAccount
<1>8. IsExtended(new, old, e)
  BY <1>3 DEF IsExtended
<1>. QED  BY <1>4, <1>5, <1>6, <1>7, <1>8 DEF SimInv, Based

\* The empty account.
LEMMA NewSimKept ==
  ASSUME NEW f, NEW all
  PROVE  SimInv(f, NewSim, all) /\ NewSim.entries = << >>
<1>. DEFINE n == NewSim
            days == [d \in 0 .. LastDay |-> 0]
<1>1. n.entries = << >> /\ n.cash = StartingBankroll /\ n.exposure = 0 /\ n.netPnl = 0 /\ n.lossStreak = 0
      /\ n.lastLoss = Null /\ n.daily = days
  BY Zenon DEF NewSim
<1>2. days \in [0 .. LastDay -> Int]
  OBVIOUS
<1>. HIDE DEF n, days
<1>3. IsAccount(n)
  BY <1>1, <1>2, AmountsAssumption DEF IsAccount
<1>4. IsLedger(n.entries, all)
  BY <1>1 DEF IsLedger
<1>. QED  BY <1>1, <1>3, <1>4, NewSimBased DEF SimInv, n

\* The rounds that follow change nothing about a ledger.
LEMMA LedgerOnMore ==
  ASSUME NEW f, NEW all, IsRounds(f, all), NEW more, IsRounds(f, more),
         \A n \in DOMAIN all : n \in DOMAIN more /\ more[n] = all[n],
         NEW sim, SimInv(f, sim, all)
  PROVE  /\ SimInv(f, sim, more)
         /\ \A n \in DOMAIN sim.entries : RoundAt(more, sim.entries[n].epoch) = RoundAt(all, sim.entries[n].epoch)
<1>1. ASSUME NEW n \in DOMAIN sim.entries
      PROVE  RoundAt(more, sim.entries[n].epoch) = RoundAt(all, sim.entries[n].epoch)
  <2>1. PICK m \in DOMAIN all : all[m].epoch = sim.entries[n].epoch
    BY DEF SimInv, Based, OnRounds
  <2>2. RoundAt(all, all[m].epoch) = all[m]
    BY RoundAtIs
  <2>3. m \in DOMAIN more /\ more[m] = all[m]
    OBVIOUS
  <2>4. RoundAt(more, more[m].epoch) = more[m]
    BY <2>3, RoundAtIs
  <2>. QED  BY <2>1, <2>2, <2>3, <2>4
<1>2. Based(sim, more)
  BY BasedOnMore DEF SimInv
<1>3. IsLedger(sim.entries, more)
  BY <1>1 DEF SimInv, IsLedger
<1>. QED  BY <1>1, <1>2, <1>3 DEF SimInv

-----------------------------------------------------------------------------
\* The counters of a simulation, and what its ledger says.

\* The bets resolved are those whose result is known at time t.
UpTo(sim, all, t) ==
  \A n \in DOMAIN sim.entries :
    sim.entries[n].status = "SETTLED" <=> knownAt(RoundAt(all, sim.entries[n].epoch)) <= t

\* Those that are resolved on the day d.
ClosedOn(entries, d) == OnDay(entries, ClosedIn(entries), d)

\* The losses after every win, among the resolved bets.
Unrecovered(won, lost) == {n \in lost : \A m \in won : m < n}

CountersAgree(sim) ==
  LET won == WonIn(sim.entries, ClosedIn(sim.entries))
      lost == LostIn(sim.entries, ClosedIn(sim.entries))
  IN  /\ sim.netPnl = Sum(Nets(sim.entries), ClosedIn(sim.entries))
      /\ \A d \in 0 .. LastDay : sim.daily[d] = Sum(Nets(sim.entries), ClosedOn(sim.entries, d))
      /\ sim.lossStreak = Cardinality(Unrecovered(won, lost))
      /\ sim.lastLoss = IF lost = {} THEN Null ELSE sim.entries[Max(lost)].epoch

LEMMA TimesInOrder ==
  ASSUME NEW q, HasTimes(q), NEW r, HasTimes(r), q.closeTime < r.closeTime
  PROVE  q.epoch < r.epoch
<1>. DEFINE a == q.epoch * Interval b == r.epoch * Interval
<1>1. q.epoch \in Nat /\ r.epoch \in Nat /\ Interval \in Nat \ {0} /\ a \in Int /\ b \in Int
  BY TimesAssumption DEF HasTimes
<1>2. a < b
  <2>1. q.closeTime = a + 2 * Interval /\ r.closeTime = b + 2 * Interval
    BY DEF HasTimes
  <2>. HIDE DEF a, b
  <2>. QED  BY <1>1, <2>1
<1>. SUFFICES ASSUME r.epoch <= q.epoch PROVE FALSE
  BY <1>1
<1>3. b <= a
  <2>. DEFINE x == r.epoch y == q.epoch
  <2>1. x \in Nat /\ y \in Nat /\ x <= y
    BY <1>1
  <2>. HIDE DEF x, y
  <2>2. x * Interval <= y * Interval
    BY <1>1, <2>1
  <2>. QED  BY <2>2 DEF x, y
<1>. HIDE DEF a, b
<1>. QED  BY <1>1, <1>2, <1>3

\* The round of a bet, and its times.
LEMMA BetTimes ==
  ASSUME NEW f, NEW all, IsRounds(f, all), NEW sim, SimInv(f, sim, all), NEW n \in DOMAIN sim.entries
  PROVE  LET r == RoundAt(all, sim.entries[n].epoch) IN HasTimes(r) /\ IsRound(f, r) /\ r.epoch = sim.entries[n].epoch
<1>1. sim.entries # << >>
  BY LedgerTyped
<1>2. f # "PANCAKESWAP_V1"
  BY <1>1 DEF SimInv
<1>3. OnRounds(sim, all)
  BY DEF SimInv, Based
<1>4. RoundAt(all, sim.entries[n].epoch).epoch = sim.entries[n].epoch /\ IsRound(f, RoundAt(all, sim.entries[n].epoch))
  BY <1>3, RoundOf
<1>. QED  BY <1>2, <1>4, TimesOf

\* Settling up to a later time resolves what has become known since.
LEMMA SettlingIsUpTo ==
  ASSUME NEW f, NEW all, IsRounds(f, all), NEW sim, SimInv(f, sim, all),
         NEW t0 \in Int, UpTo(sim, all, t0), NEW t \in Int, t0 <= t
  PROVE  UpTo(settleUpTo(sim, all, t), all, t)
<1>. DEFINE s == settleUpTo(sim, all, t)
            due == Due(sim, all, t)
            old == sim.entries
            new == s.entries
<1>1. /\ due \subseteq Pending(sim) /\ ClosedIn(new) = ClosedIn(old) \cup due
      /\ IsSim(sim)
  BY SettledLedger DEF SimInv, Based
<1>2. DOMAIN new = DOMAIN old /\ \A n \in DOMAIN old : new[n].epoch = old[n].epoch
  BY <1>1, SettlingKeepsEntries
<1>3. Pending(sim) = DOMAIN old \ ClosedIn(old)
  BY LedgerTyped
<1>4. \A n \in Pending(sim) : n \in due <=> knownAt(RoundAt(all, old[n].epoch)) <= t
  BY DEF Due
<1>. HIDE DEF s, due
<1>5. ASSUME NEW n \in DOMAIN old
      PROVE  new[n].status = "SETTLED" <=> knownAt(RoundAt(all, new[n].epoch)) <= t
  <2>. DEFINE k == knownAt(RoundAt(all, old[n].epoch))
  <2>1. k \in Int
    BY BetTimes DEF HasTimes
  <2>2. n \in ClosedIn(old) <=> k <= t0
    BY DEF UpTo, ClosedIn
  <2>3. n \in ClosedIn(new) <=> n \in ClosedIn(old) \/ n \in due
    BY <1>1
  <2>4. n \notin ClosedIn(old) => (n \in due <=> k <= t)
    BY <1>3, <1>4
  <2>5. n \in ClosedIn(new) <=> new[n].status = "SETTLED"
    BY <1>2 DEF ClosedIn
  <2>. HIDE DEF k
  <2>6. new[n].status = "SETTLED" <=> k <= t
    BY <2>1, <2>2, <2>3, <2>4, <2>5, <1>1, <1>3
  <2>. QED  BY <2>6, <1>2 DEF k
<1>. QED  BY <1>2, <1>5 DEF UpTo, s

\* What is decided becomes known in the order of the bets.
LEMMA DecidedInOrder ==
  ASSUME NEW f, NEW all, IsRounds(f, all), NEW sim, SimInv(f, sim, all),
         NEW t0 \in Int, UpTo(sim, all, t0),
         NEW m \in ClosedIn(sim.entries), RoundAt(all, sim.entries[m].epoch).outcome # "CANCELLED",
         NEW n \in Pending(sim), RoundAt(all, sim.entries[n].epoch).outcome # "CANCELLED"
  PROVE  m < n
<1>. DEFINE q == RoundAt(all, sim.entries[m].epoch)
            r == RoundAt(all, sim.entries[n].epoch)
<1>1. m \in DOMAIN sim.entries /\ n \in DOMAIN sim.entries /\ n \notin ClosedIn(sim.entries)
      /\ DOMAIN sim.entries \in SUBSET Int
  BY LedgerTyped DEF ClosedIn, Pending
<1>2. HasTimes(q) /\ HasTimes(r) /\ q.epoch = sim.entries[m].epoch /\ r.epoch = sim.entries[n].epoch
  BY <1>1, BetTimes
<1>3. knownAt(q) <= t0 /\ ~(knownAt(r) <= t0)
  BY <1>1 DEF UpTo, ClosedIn
<1>. HIDE DEF q, r
<1>4. knownAt(q) = q.closeTime /\ knownAt(r) = r.closeTime /\ knownAt(q) \in Int /\ knownAt(r) \in Int
  BY <1>2 DEF HasTimes, q, r
<1>5. q.epoch < r.epoch /\ q.epoch \in Int /\ r.epoch \in Int
  <2>1. q.closeTime < r.closeTime
    BY <1>3, <1>4
  <2>. QED  BY <1>2, <2>1, TimesInOrder DEF HasTimes
<1>6. m # n
  BY <1>2, <1>5
<1>7. ~(n < m)
  <2>1. n < m => r.epoch < q.epoch
    BY <1>1, <1>2 DEF SimInv, IsLedger
  <2>. QED  BY <2>1, <1>5
<1>. QED  BY <1>1, <1>6, <1>7
\* A streak goes on with the losses that follow, or starts again after the last win.
LEMMA StreakGoesOn ==
  ASSUME NEW won \in SUBSET Int, NEW lost \in SUBSET Int, NEW won2 \in SUBSET Int, NEW lost2 \in SUBSET Int,
         IsFiniteSet(won), IsFiniteSet(lost), IsFiniteSet(won2), IsFiniteSet(lost2),
         \A m \in won \cup lost : \A n \in won2 \cup lost2 : m < n
  PROVE  lossStreakAfter(Cardinality(Unrecovered(won, lost)), won2, lost2)
           = Cardinality(Unrecovered(won \cup won2, lost \cup lost2))
<1>. DEFINE old == Unrecovered(won, lost)
            new == Unrecovered(won \cup won2, lost \cup lost2)
<1>1. CASE won2 = {}
  <2>1. new = old \cup lost2 /\ old \cap lost2 = {}
    <3>1. \A n \in lost2 : (\A m \in won : m < n) /\ n \notin lost
      <4>. SUFFICES ASSUME NEW n \in lost2 PROVE (\A m \in won : m < n) /\ n \notin lost
        OBVIOUS
      <4>1. n \in lost => n < n
        OBVIOUS
      <4>. QED  BY <4>1
    <3>2. won \cup won2 = won
      BY <1>1
    <3>3. \A n : n \in new <=> n \in old \/ n \in lost2
      BY <3>1, <3>2 DEF Unrecovered
    <3>4. \A n \in old : n \in lost
      BY DEF Unrecovered
    <3>. HIDE DEF old, new
    <3>. QED  BY <3>1, <3>3, <3>4
  <2>2. IsFiniteSet(old)
    BY FS_Subset DEF Unrecovered
  <2>. HIDE DEF old, new
  <2>3. Cardinality(new) = Cardinality(old) + Cardinality(lost2)
    <3>1. Cardinality(new) = Cardinality(old) + Cardinality(lost2) - Cardinality({})
      BY <2>1, <2>2, FS_Union
    <3>2. Cardinality({}) = 0 /\ Cardinality(old) \in Nat /\ Cardinality(lost2) \in Nat
      BY <2>2, FS_EmptySet, FS_CardinalityType
    <3>. QED  BY <3>1, <3>2
  <2>. QED  BY <1>1, <2>3 DEF lossStreakAfter, old, new
<1>2. CASE won2 # {}
  <2>. DEFINE last == Max(won2)
  <2>1. last \in won2 /\ \A m \in won2 : m <= last
    BY <1>2, MaxIs
  <2>. HIDE DEF last
  <2>2. \A n \in lost2 : (\A m \in won \cup won2 : m < n) <=> n > last
    <3>. SUFFICES ASSUME NEW n \in lost2 PROVE (\A m \in won \cup won2 : m < n) <=> n > last
      OBVIOUS
    <3>1. (\A m \in won \cup won2 : m < n) => n > last
      BY <2>1
    <3>2. ASSUME n > last, NEW m \in won \cup won2 PROVE m < n
      <4>1. CASE m \in won
        BY <4>1
      <4>2. CASE m \in won2
        BY <4>2, <3>2, <2>1
      <4>. QED  BY <4>1, <4>2
    <3>. QED  BY <3>1, <3>2
  <2>3. \A n \in lost : ~(\A m \in won \cup won2 : m < n)
    <3>. SUFFICES ASSUME NEW n \in lost PROVE ~(last < n)
      BY <2>1
    <3>1. n < last
      BY <2>1
    <3>. QED  BY <2>1, <3>1
  <2>4. new = {n \in lost2 : n > last}
    BY <2>2, <2>3 DEF Unrecovered
  <2>. QED  BY <1>2, <2>4 DEF lossStreakAfter, last
<1>. QED  BY <1>1, <1>2

\* The net result of a resolved bet.
LEMMA NetIs ==
  ASSUME NEW entries, NEW n \in DOMAIN entries, NEW r, IsOutcome(entries[n], r)
  PROVE  Nets(entries)[n] = tradeNetPnl(entries[n]) /\ Nets(entries)[n] \in Int
<1>. DEFINE v == tradeNetPnl(entries[n])
<1>1. Nets(entries)[n] = OrZero(v)
  BY DEF Nets
<1>2. v \in Int
  BY DEF IsOutcome
<1>. HIDE DEF v
<1>3. OrZero(v) = v
  BY <1>2, NullAssumption DEF OrZero
<1>. QED  BY <1>1, <1>2, <1>3 DEF v

\* The last loss, when those that follow are later than those before.
LEMMA LastLossGoesOn ==
  ASSUME NEW lost \in SUBSET Int, NEW lost2 \in SUBSET Int, IsFiniteSet(lost), IsFiniteSet(lost2),
         \A m \in lost : \A n \in lost2 : m < n, lost2 # {}
  PROVE  Max(lost \cup lost2) = Max(lost2)
<1>. DEFINE a == Max(lost2) b == Max(lost \cup lost2)
<1>1. a \in lost2 /\ \A n \in lost2 : n <= a
  BY MaxIs
<1>2. b \in lost \cup lost2 /\ \A n \in lost \cup lost2 : n <= b
  <2>1. IsFiniteSet(lost \cup lost2)
    BY FS_Union
  <2>2. lost \cup lost2 # {} /\ lost \cup lost2 \in SUBSET Int
    OBVIOUS
  <2>. QED  BY <2>1, <2>2, MaxIs
<1>. HIDE DEF a, b
<1>3. a <= b /\ a \in Int /\ b \in Int
  BY <1>1, <1>2
<1>4. b \notin lost
  BY <1>1, <1>3
<1>5. b \in lost2 => b <= a
  BY <1>1
<1>6. a = b
  BY <1>2, <1>3, <1>4, <1>5
<1>. QED  BY <1>6 DEF a, b

\* Settling keeps the counters what the ledger says.
LEMMA SettlingCounts ==
  ASSUME NEW f, NEW all, IsRounds(f, all), NEW sim, SimInv(f, sim, all), CountersAgree(sim),
         NEW t0 \in Int, UpTo(sim, all, t0), NEW t \in Int, t0 <= t
  PROVE  CountersAgree(settleUpTo(sim, all, t))
<1>. DEFINE s == settleUpTo(sim, all, t)
            due == Due(sim, all, t)
            old == sim.entries
            new == s.entries
            C == ClosedIn(old)
<1>1. /\ due \subseteq Pending(sim) /\ ClosedIn(new) = C \cup due
      /\ \A n \in DOMAIN old \ due : new[n] = old[n]
      /\ \A n \in due : IsOutcome(new[n], RoundAt(all, new[n].epoch))
  BY SettledLedger
<1>2. IsBooking(s, sim, new, due) /\ SimInv(f, s, all)
  BY SettledLedger, SettlingKeeps
<1>3. DOMAIN new = DOMAIN old /\ \A n \in DOMAIN old : new[n].epoch = old[n].epoch
  <2>1. IsSim(sim)
    BY DEF SimInv, Based
  <2>. QED  BY <2>1, SettlingKeepsEntries
<1>4. /\ IsFiniteSet(DOMAIN old) /\ DOMAIN old \in SUBSET Int /\ Pending(sim) = DOMAIN old \ C
      /\ \A n \in C : IsOutcome(old[n], RoundAt(all, old[n].epoch))
  BY LedgerTyped
<1>5. C \subseteq DOMAIN old /\ due \subseteq DOMAIN old /\ C \cap due = {} /\ \A n \in C : new[n] = old[n]
  BY <1>1, <1>4 DEF ClosedIn
<1>. DEFINE nets == Nets(new)
<1>6. \A n \in C : nets[n] = Nets(old)[n] /\ nets[n] \in Int
  <2>. SUFFICES ASSUME NEW n \in C PROVE nets[n] = Nets(old)[n] /\ nets[n] \in Int
    OBVIOUS
  <2>1. n \in DOMAIN old /\ n \in DOMAIN new /\ new[n] = old[n] /\ IsOutcome(old[n], RoundAt(all, old[n].epoch))
    BY <1>3, <1>4, <1>5
  <2>. HIDE DEF new, old
  <2>2. Nets(old)[n] = tradeNetPnl(old[n]) /\ Nets(old)[n] \in Int /\ Nets(new)[n] = tradeNetPnl(new[n])
    BY <2>1, NetIs
  <2>. QED  BY <2>1, <2>2
<1>7. \A n \in due : nets[n] = NetOf(new, due)[n] /\ nets[n] \in Int
  <2>. SUFFICES ASSUME NEW n \in due PROVE nets[n] = NetOf(new, due)[n] /\ nets[n] \in Int
    OBVIOUS
  <2>1. n \in DOMAIN new /\ IsOutcome(new[n], RoundAt(all, new[n].epoch))
    BY <1>1, <1>3, <1>5
  <2>. HIDE DEF new, due
  <2>2. Nets(new)[n] = tradeNetPnl(new[n]) /\ Nets(new)[n] \in Int
    BY <2>1, NetIs
  <2>. QED  BY <2>2 DEF NetOf
<1>. HIDE DEF s, due, nets, C
<1>8. ASSUME NEW A \in SUBSET C, NEW D \in SUBSET due
      PROVE  Sum(nets, A \cup D) = Sum(Nets(old), A) + Sum(NetOf(new, due), D)
  <2>1. IsFiniteSet(A) /\ IsFiniteSet(D)
    BY <1>4, <1>5, FS_Subset
  <2>2. A \cap D = {} /\ \A x \in A \cup D : nets[x] \in Int
    BY <1>5, <1>6, <1>7
  <2>3. Sum(nets, A \cup D) = Sum(nets, A) + Sum(nets, D)
    BY <2>1, <2>2, SumOfUnion
  <2>4. Sum(nets, A) = Sum(Nets(old), A)
    BY <2>1, <1>6, SumAgrees
  <2>5. Sum(nets, D) = Sum(NetOf(new, due), D)
    BY <2>1, <1>7, SumAgrees
  <2>. QED  BY <2>3, <2>4, <2>5
<1>9. s.netPnl = Sum(nets, C \cup due)
  <2>1. sim.netPnl = Sum(Nets(old), C)
    BY DEF CountersAgree, C
  <2>2. s.netPnl = sim.netPnl + Sum(NetOf(new, due), due)
    BY <1>2 DEF IsBooking
  <2>. QED  BY <2>1, <2>2, <1>8
<1>10. \A d \in 0 .. LastDay : s.daily[d] = Sum(nets, ClosedOn(new, d))
  <2>. DEFINE Days == 0 .. LastDay
  <2>1. ASSUME NEW d \in Days
        PROVE  s.daily[d] = Sum(nets, ClosedOn(new, d))
    <3>1. DOMAIN sim.daily = Days
      BY DEF SimInv, IsAccount
    <3>. HIDE DEF Days
    <3>2. s.daily[d] = sim.daily[d] + Sum(NetOf(new, due), OnDay(new, due, d))
      BY <1>2, <3>1 DEF IsBooking
    <3>3. sim.daily[d] = Sum(Nets(old), ClosedOn(old, d))
      BY DEF CountersAgree, Days
    <3>4. ClosedOn(new, d) = ClosedOn(old, d) \cup OnDay(new, due, d)
      BY <1>1, <1>5 DEF ClosedOn, OnDay, C
    <3>5. ClosedOn(old, d) \subseteq C /\ OnDay(new, due, d) \subseteq due
      BY DEF ClosedOn, OnDay, C
    <3>. QED  BY <3>2, <3>3, <3>4, <3>5, <1>8
  <2>. QED  BY <2>1
<1>. DEFINE won == WonIn(old, C) lost == LostIn(old, C)
            won2 == WonIn(new, due) lost2 == LostIn(new, due)
<1>11. /\ WonIn(new, C \cup due) = won \cup won2 /\ LostIn(new, C \cup due) = lost \cup lost2
       /\ won \subseteq C /\ lost \subseteq C /\ won2 \subseteq due /\ lost2 \subseteq due
  BY <1>5 DEF WonIn, LostIn
<1>12. ASSUME NEW m \in won \cup lost, NEW n \in won2 \cup lost2 PROVE m < n
  <2>1. m \in C /\ n \in due /\ old[m].result # "REFUNDED" /\ new[n].result # "REFUNDED"
    BY DEF WonIn, LostIn
  <2>2. RoundAt(all, old[m].epoch).outcome # "CANCELLED"
    BY <2>1, <1>4 DEF IsOutcome
  <2>3. RoundAt(all, old[n].epoch).outcome # "CANCELLED"
    <3>1. RoundAt(all, new[n].epoch).outcome # "CANCELLED"
      BY <2>1, <1>1 DEF IsOutcome
    <3>. QED  BY <2>1, <3>1, <1>3, <1>5
  <2>4. m \in ClosedIn(sim.entries) /\ n \in Pending(sim)
    BY <2>1, <1>1 DEF C
  <2>. QED  BY <2>2, <2>3, <2>4, DecidedInOrder
<1>13. /\ won \in SUBSET Int /\ lost \in SUBSET Int /\ won2 \in SUBSET Int /\ lost2 \in SUBSET Int
       /\ won \cup lost \subseteq DOMAIN old
  BY <1>4, <1>5, <1>11
<1>14. IsFiniteSet(won) /\ IsFiniteSet(lost) /\ IsFiniteSet(won2) /\ IsFiniteSet(lost2)
  <2>1. won \in SUBSET DOMAIN old /\ lost \in SUBSET DOMAIN old /\ won2 \in SUBSET DOMAIN old /\ lost2 \in SUBSET DOMAIN old
    BY <1>5, <1>11
  <2>. HIDE DEF won, lost, won2, lost2
  <2>. QED  BY <1>4, <2>1, FS_Subset
<1>15. \A n \in lost : new[n].epoch = old[n].epoch
  BY <1>3, <1>13
<1>16. /\ sim.lossStreak = Cardinality(Unrecovered(won, lost))
       /\ sim.lastLoss = IF lost = {} THEN Null ELSE old[Max(lost)].epoch
  BY DEF CountersAgree, C
<1>17. /\ s.lossStreak = lossStreakAfter(sim.lossStreak, won2, lost2)
       /\ s.lastLoss = IF lost2 = {} THEN sim.lastLoss ELSE new[Max(lost2)].epoch
  BY <1>2 DEF IsBooking
<1>. HIDE DEF won, lost, won2, lost2
<1>18. s.lossStreak = Cardinality(Unrecovered(won \cup won2, lost \cup lost2))
  <2>1. lossStreakAfter(Cardinality(Unrecovered(won, lost)), won2, lost2)
           = Cardinality(Unrecovered(won \cup won2, lost \cup lost2))
    BY <1>12, <1>13, <1>14, StreakGoesOn
  <2>. QED  BY <2>1, <1>16, <1>17
<1>19. s.lastLoss = IF lost \cup lost2 = {} THEN Null ELSE new[Max(lost \cup lost2)].epoch
  <2>1. CASE lost2 = {}
    <3>1. lost \cup lost2 = lost
      BY <2>1
    <3>2. lost # {} => Max(lost) \in lost
      BY <1>13, <1>14, MaxIs
    <3>. QED  BY <2>1, <3>1, <3>2, <1>15, <1>16, <1>17
  <2>2. CASE lost2 # {}
    <3>1. \A m \in lost : \A n \in lost2 : m < n
      BY <1>12
    <3>2. Max(lost \cup lost2) = Max(lost2)
      BY <2>2, <3>1, <1>13, <1>14, LastLossGoesOn
    <3>. QED  BY <2>2, <3>2, <1>17
  <2>. QED  BY <2>1, <2>2
<1>20. WonIn(new, ClosedIn(new)) = won \cup won2 /\ LostIn(new, ClosedIn(new)) = lost \cup lost2
  BY <1>1, <1>11
<1>21. s.netPnl = Sum(Nets(new), ClosedIn(new)) /\ \A d \in 0 .. LastDay : s.daily[d] = Sum(Nets(new), ClosedOn(new, d))
  BY <1>1, <1>9, <1>10 DEF nets
<1>22. CountersAgree(s)
  BY <1>18, <1>19, <1>20, <1>21 DEF CountersAgree
<1>. QED  BY <1>22 DEF s
\* A bet that is pending changes none of them.
LEMMA BettingCounts ==
  ASSUME NEW f, f # "PANCAKESWAP_V1", NEW all, IsRounds(f, all), NEW s, SimInv(f, s, all), NEW m \in DOMAIN all,
         \A n \in DOMAIN s.entries : s.entries[n].epoch < all[m].epoch,
         NEW p, NEW e, NEW now, IsBetting(p, s, e, all[m], now), CountersAgree(s)
  PROVE  /\ ClosedIn(p.entries) = ClosedIn(s.entries)
         /\ \A n \in ClosedIn(s.entries) : Nets(p.entries)[n] = Nets(s.entries)[n]
         /\ CountersAgree(p)
<1>. DEFINE old == s.entries
            new == p.entries
            C == ClosedIn(old)
            last == Len(old) + 1
<1>1. /\ DOMAIN new = (DOMAIN old) \cup {last} /\ Len(old) \in Nat
      /\ new[last] = e /\ \A n \in DOMAIN old : new[n] = old[n]
  <2>1. IsExtended(new, old, e)
    BY BettingKeeps
  <2>. QED  BY <2>1 DEF IsExtended
<1>2. IsPending(e) /\ p.lossStreak = s.lossStreak /\ p.lastLoss = s.lastLoss /\ p.daily = s.daily /\ p.netPnl = s.netPnl
  BY Zenon DEF IsBetting
<1>3. e.status # "SETTLED"
  BY <1>2 DEF IsPending
<1>4. C \subseteq DOMAIN old
  BY DEF ClosedIn
<1>5. IsFiniteSet(C) /\ C \in SUBSET Int
  <2>1. IsFiniteSet(DOMAIN old) /\ DOMAIN old \in SUBSET Int
    BY LedgerTyped
  <2>. HIDE DEF C
  <2>2. C \in SUBSET DOMAIN old
    BY <1>4
  <2>3. IsFiniteSet(C)
    BY <2>1, <2>2, FS_Subset
  <2>. QED  BY <2>1, <2>2, <2>3
<1>6. ClosedIn(new) = C
  BY <1>1, <1>3 DEF ClosedIn
<1>7. \A n \in C : Nets(new)[n] = Nets(old)[n] /\ new[n] = old[n]
  BY <1>1, <1>4 DEF Nets
<1>. HIDE DEF C
<1>8. \A D \in SUBSET C : Sum(Nets(new), D) = Sum(Nets(old), D)
  <2>. SUFFICES ASSUME NEW D \in SUBSET C PROVE Sum(Nets(new), D) = Sum(Nets(old), D)
    OBVIOUS
  <2>1. IsFiniteSet(D)
    BY <1>5, FS_Subset
  <2>. QED  BY <2>1, <1>7, SumAgrees
<1>9. \A d \in 0 .. LastDay : ClosedOn(new, d) = ClosedOn(old, d) /\ ClosedOn(old, d) \in SUBSET C
  BY <1>6, <1>7 DEF ClosedOn, OnDay, C
<1>10. WonIn(new, C) = WonIn(old, C) /\ LostIn(new, C) = LostIn(old, C) /\ LostIn(old, C) \subseteq C
  BY <1>7 DEF WonIn, LostIn
<1>. DEFINE won == WonIn(old, C) lost == LostIn(old, C)
<1>11. /\ s.netPnl = Sum(Nets(old), C)
       /\ \A d \in 0 .. LastDay : s.daily[d] = Sum(Nets(old), ClosedOn(old, d))
       /\ s.lossStreak = Cardinality(Unrecovered(won, lost))
       /\ s.lastLoss = IF lost = {} THEN Null ELSE old[Max(lost)].epoch
  BY DEF CountersAgree, C
<1>12. \A d \in 0 .. LastDay : p.daily[d] = Sum(Nets(new), ClosedOn(new, d))
  <2>. DEFINE Days == 0 .. LastDay
  <2>. HIDE DEF Days
  <2>1. \A d \in Days : p.daily[d] = Sum(Nets(new), ClosedOn(new, d))
    BY <1>2, <1>8, <1>9, <1>11 DEF Days
  <2>. QED  BY <2>1 DEF Days
<1>13. p.netPnl = Sum(Nets(new), C)
  BY <1>2, <1>8, <1>11
<1>14. lost # {} => Max(lost) \in C
  <2>. HIDE DEF lost
  <2>1. lost \in SUBSET C
    BY <1>10 DEF lost
  <2>2. IsFiniteSet(lost) /\ lost \in SUBSET Int
    BY <2>1, <1>5, FS_Subset
  <2>. QED  BY <2>1, <2>2, MaxIs
<1>15. p.lastLoss = IF lost = {} THEN Null ELSE new[Max(lost)].epoch
  BY <1>2, <1>7, <1>11, <1>14
<1>16. p.lossStreak = Cardinality(Unrecovered(won, lost))
  BY <1>2, <1>11
<1>17. WonIn(new, ClosedIn(new)) = won /\ LostIn(new, ClosedIn(new)) = lost
  BY <1>6, <1>10
<1>18. CountersAgree(p)
  BY <1>6, <1>12, <1>13, <1>15, <1>16, <1>17 DEF CountersAgree
<1>. QED  BY <1>6, <1>7, <1>18 DEF C

\* A bet placed at the time up to which all is settled is not yet known.
LEMMA BettingIsUpTo ==
  ASSUME NEW f, f # "PANCAKESWAP_V1", NEW all, IsRounds(f, all), NEW s, SimInv(f, s, all), NEW m \in DOMAIN all,
         \A n \in DOMAIN s.entries : s.entries[n].epoch < all[m].epoch,
         NEW now \in Int, now < all[m].closeTime, UpTo(s, all, now),
         NEW p, NEW e, IsBetting(p, s, e, all[m], now)
  PROVE  UpTo(p, all, now)
<1>. DEFINE old == s.entries
            new == p.entries
            last == Len(old) + 1
<1>1. /\ DOMAIN new = (DOMAIN old) \cup {last}
      /\ new[last] = e /\ \A n \in DOMAIN old : new[n] = old[n]
  <2>1. IsExtended(new, old, e)
    BY BettingKeeps
  <2>. QED  BY <2>1 DEF IsExtended
<1>2. IsPending(e) /\ e.epoch = all[m].epoch
  BY Zenon DEF IsBetting
<1>3. e.status # "SETTLED"
  BY <1>2 DEF IsPending
<1>4. RoundAt(all, e.epoch) = all[m]
  BY <1>2, RoundAtIs
<1>5. ~(knownAt(all[m]) <= now)
  <2>1. HasTimes(all[m])
    BY TimesOf DEF IsRounds
  <2>. QED  BY <2>1 DEF HasTimes
<1>6. ASSUME NEW n \in DOMAIN new
      PROVE  new[n].status = "SETTLED" <=> knownAt(RoundAt(all, new[n].epoch)) <= now
  <2>1. CASE n = last
    BY <2>1, <1>1, <1>3, <1>4, <1>5
  <2>2. CASE n \in DOMAIN old
    BY <2>2, <1>1 DEF UpTo
  <2>. QED  BY <2>1, <2>2, <1>1
<1>. QED  BY <1>6 DEF UpTo

-----------------------------------------------------------------------------
\* The account of a simulation, and what its ledger says.

LEMMA Distributes ==
  ASSUME NEW x \in Nat, NEW y \in Nat, NEW z \in Nat
  PROVE  (x + y) * z = x * z + y * z /\ x * z \in Int /\ y * z \in Int
  OBVIOUS

\* The stakes of a ledger.
LEMMA StakesTyped ==
  ASSUME NEW f, NEW all, IsRounds(f, all), NEW sim, SimInv(f, sim, all)
  PROVE  /\ IsFiniteSet(Pending(sim)) /\ Pending(sim) \subseteq DOMAIN sim.entries
         /\ \A n \in DOMAIN sim.entries : /\ sim.entries[n].amount \in Nat \ {0}
                                          /\ EntryAmounts(sim.entries)[n] = sim.entries[n].amount
<1>1. IsFiniteSet(DOMAIN sim.entries)
  BY LedgerTyped
<1>2. Pending(sim) \in SUBSET DOMAIN sim.entries
  BY DEF Pending
<1>3. \A n \in DOMAIN sim.entries : sim.entries[n].amount \in Nat \ {0}
  BY DEF SimInv, IsLedger, IsBet
<1>. QED  BY <1>1, <1>2, <1>3, FS_Subset DEF EntryAmounts

\* Settling moves a stake from what is at risk to what became of it.
LEMMA SettlingBalances ==
  ASSUME NEW f, NEW all, IsRounds(f, all), NEW sim, SimInv(f, sim, all), Balanced(sim), NEW t
  PROVE  Balanced(settleUpTo(sim, all, t))
<1>. DEFINE s == settleUpTo(sim, all, t)
            due == Due(sim, all, t)
            old == sim.entries
            new == s.entries
            P == Pending(sim)
            rest == P \ due
<1>1. /\ due \subseteq P /\ ClosedIn(new) = ClosedIn(old) \cup due
      /\ \A n \in due : IsOutcome(new[n], RoundAt(all, new[n].epoch))
      /\ IsBooking(s, sim, new, due)
  BY SettledLedger
<1>2. SimInv(f, s, all)
  BY SettlingKeeps
<1>3. DOMAIN new = DOMAIN old /\ \A n \in DOMAIN old : new[n].amount = old[n].amount
  <2>1. IsSim(sim)
    BY DEF SimInv, Based
  <2>. QED  BY <2>1, SettlingKeepsEntries
<1>4. P = DOMAIN old \ ClosedIn(old) /\ Pending(s) = DOMAIN new \ ClosedIn(new)
  <2>1. P = DOMAIN old \ ClosedIn(old)
    BY LedgerTyped
  <2>. HIDE DEF s
  <2>2. Pending(s) = DOMAIN s.entries \ ClosedIn(s.entries)
    BY <1>2, LedgerTyped
  <2>. QED  BY <2>1, <2>2
<1>5. Pending(s) = rest /\ P \subseteq DOMAIN old
  BY <1>1, <1>3, <1>4
<1>6. IsFiniteSet(P) /\ IsFiniteSet(due) /\ IsFiniteSet(rest)
  <2>1. IsFiniteSet(P)
    BY StakesTyped
  <2>2. due \in SUBSET P /\ rest \in SUBSET P
    BY <1>1
  <2>. HIDE DEF P, due, rest
  <2>. QED  BY <2>1, <2>2, FS_Subset
<1>7. \A n \in P : EntryAmounts(old)[n] \in Int
  BY StakesTyped
<1>8. \A n \in P : EntryAmounts(new)[n] = EntryAmounts(old)[n]
  BY <1>3, <1>5 DEF EntryAmounts
<1>9. Sum(EntryAmounts(old), P) = Sum(StakesOf(new, due), due) + Sum(EntryAmounts(new), rest)
  <2>1. \A n \in due : StakesOf(new, due)[n] = EntryAmounts(old)[n]
    BY <1>1, <1>3, <1>5 DEF StakesOf, EntryAmounts
  <2>. HIDE DEF due, new, old, P
  <2>2. Sum(EntryAmounts(old), due) = Sum(StakesOf(new, due), due)
    BY <1>6, <2>1, SumAgrees
  <2>3. Sum(EntryAmounts(old), rest) = Sum(EntryAmounts(new), rest)
    BY <1>6, <1>8, SumAgrees
  <2>4. due \cup rest = P /\ due \cap rest = {}
    BY <1>1
  <2>5. \A n \in due \cup rest : EntryAmounts(old)[n] \in Int
    BY <1>7, <2>4
  <2>. HIDE DEF rest
  <2>6. Sum(EntryAmounts(old), due \cup rest) = Sum(EntryAmounts(old), due) + Sum(EntryAmounts(old), rest)
    BY <1>6, <2>4, <2>5, SumOfUnion
  <2>. QED  BY <2>2, <2>3, <2>4, <2>6
<1>10. Sum(BackOf(new, due), due)
         = Sum(NetOf(new, due), due) + Sum(StakesOf(new, due), due) + Cardinality(due) * GasPerBet
  <2>1. ASSUME NEW n \in due
        PROVE  /\ NetOf(new, due)[n] \in Int /\ StakesOf(new, due)[n] \in Int
               /\ BackOf(new, due)[n] = NetOf(new, due)[n] + StakesOf(new, due)[n] + GasPerBet
    <3>1. IsOutcome(new[n], RoundAt(all, new[n].epoch)) /\ new[n].amount = old[n].amount /\ old[n].amount \in Nat
      BY <1>1, <1>3, <1>5, StakesTyped
    <3>2. /\ NetOf(new, due)[n] = tradeNetPnl(new[n]) /\ StakesOf(new, due)[n] = new[n].amount
          /\ BackOf(new, due)[n] = new[n].payout - new[n].claimGasCost
      BY DEF NetOf, StakesOf, BackOf
    <3>. DEFINE e == new[n]
    <3>3. /\ tradeNetPnl(e) = e.payout - e.amount - (GasPerBet + e.claimGasCost)
          /\ tradeNetPnl(e) \in Int /\ e.payout \in Nat /\ e.claimGasCost \in Nat /\ e.amount \in Nat
      BY <3>1 DEF IsOutcome
    <3>. HIDE DEF e, due, new
    <3>4. tradeNetPnl(e) + e.amount + GasPerBet = e.payout - e.claimGasCost
      BY <3>3, AmountsAssumption
    <3>. QED  BY <3>2, <3>3, <3>4 DEF e
  <2>. HIDE DEF due, new
  <2>. QED  BY <1>6, <2>1, SumOfParts, AmountsAssumption
<1>11. Cardinality(P) = Cardinality(due) + Cardinality(rest) /\ Cardinality(due) \in Nat /\ Cardinality(rest) \in Nat
  <2>1. due \cup rest = P /\ due \cap rest = {}
    BY <1>1
  <2>. HIDE DEF P, due, rest
  <2>2. Cardinality(due \cup rest) = Cardinality(due) + Cardinality(rest) - Cardinality(due \cap rest)
    BY <1>6, FS_Union
  <2>3. Cardinality(due \cap rest) = 0 /\ Cardinality(due) \in Nat /\ Cardinality(rest) \in Nat
    BY <1>6, <2>1, FS_EmptySet, FS_CardinalityType
  <2>4. Cardinality(due \cup rest) = Cardinality(P)
    BY <2>1, Zenon
  <2>. QED  BY <2>2, <2>3, <2>4
<1>. DEFINE stakes == Sum(StakesOf(new, due), due)
            back == Sum(BackOf(new, due), due)
            nets == Sum(NetOf(new, due), due)
            left == Sum(EntryAmounts(new), rest)
            a == Cardinality(due) * GasPerBet
            b == Cardinality(rest) * GasPerBet
            c == Cardinality(P) * GasPerBet
<1>12. a \in Int /\ b \in Int /\ c = a + b
  <2>. DEFINE x == Cardinality(due) y == Cardinality(rest)
  <2>1. x \in Nat /\ y \in Nat /\ Cardinality(P) = x + y /\ GasPerBet \in Nat
    BY <1>11, AmountsAssumption
  <2>. HIDE DEF x, y, P
  <2>2. (x + y) * GasPerBet = x * GasPerBet + y * GasPerBet /\ x * GasPerBet \in Int /\ y * GasPerBet \in Int
    BY <2>1, Distributes
  <2>. QED  BY <2>1, <2>2 DEF x, y
<1>13. nets \in Int /\ stakes \in Int
  <2>1. \A n \in due : NetOf(new, due)[n] \in Int
    BY <1>1 DEF NetOf, IsOutcome
  <2>2. \A n \in due : StakesOf(new, due)[n] \in Int
    BY <1>1, <1>3, <1>5, StakesTyped DEF StakesOf
  <2>. HIDE DEF new, due
  <2>. QED  BY <1>6, <2>1, <2>2, SumIsInt
<1>14. left \in Int
  <2>1. \A n \in rest : EntryAmounts(new)[n] \in Int
    BY <1>7, <1>8
  <2>. HIDE DEF new, rest
  <2>. QED  BY <1>6, <2>1, SumIsInt
<1>15. /\ sim.exposure = stakes + left /\ back = nets + stakes + a
       /\ sim.cash + sim.exposure + c = StartingBankroll + sim.netPnl
  BY <1>9, <1>10 DEF Balanced
<1>16. s.cash = sim.cash + back /\ s.exposure = sim.exposure - stakes /\ s.netPnl = sim.netPnl + nets
  BY <1>1 DEF IsBooking
<1>17. sim.cash \in Int /\ sim.netPnl \in Int /\ StartingBankroll \in Int
  BY AmountsAssumption DEF SimInv, IsAccount
<1>18. Sum(EntryAmounts(new), Pending(s)) = left /\ Cardinality(Pending(s)) * GasPerBet = b
  BY <1>5
<1>. HIDE DEF stakes, back, nets, left, a, b, c, s, new
<1>19. s.exposure = left /\ s.cash + s.exposure + b = StartingBankroll + s.netPnl
  BY <1>12, <1>13, <1>14, <1>15, <1>16, <1>17
<1>20. s.exposure = Sum(EntryAmounts(s.entries), Pending(s))
  BY <1>18, <1>19 DEF new
<1>21. Balanced(s)
  BY <1>18, <1>19, <1>20 DEF Balanced
<1>. QED  BY <1>21 DEF s

\* A bet moves its stake from the cash to what is at risk, and its gas is gone.
LEMMA BettingBalances ==
  ASSUME NEW f, f # "PANCAKESWAP_V1", NEW all, IsRounds(f, all), NEW s, SimInv(f, s, all), NEW m \in DOMAIN all,
         \A n \in DOMAIN s.entries : s.entries[n].epoch < all[m].epoch,
         NEW p, NEW e, NEW now, IsBetting(p, s, e, all[m], now), Balanced(s)
  PROVE  Balanced(p)
<1>. DEFINE old == s.entries
            new == p.entries
            P == Pending(s)
            last == Len(old) + 1
<1>1. SimInv(f, p, all) /\ IsExtended(new, old, e)
  BY BettingKeeps
<1>2. /\ DOMAIN new = (DOMAIN old) \cup {last} /\ last \notin DOMAIN old
      /\ new[last] = e /\ \A n \in DOMAIN old : new[n] = old[n]
  BY <1>1 DEF IsExtended
<1>3. /\ IsPending(e) /\ p.cash = s.cash - (e.amount + GasPerBet) /\ p.exposure = s.exposure + e.amount
      /\ p.netPnl = s.netPnl
  BY Zenon DEF IsBetting
<1>4. Pending(p) = P \cup {last} /\ last \notin P
  BY <1>2, <1>3 DEF Pending, IsPending
<1>5. IsFiniteSet(P) /\ P \subseteq DOMAIN old /\ \A n \in DOMAIN old : EntryAmounts(old)[n] \in Int
  BY StakesTyped
<1>6. \A n \in DOMAIN new : EntryAmounts(new)[n] = new[n].amount /\ EntryAmounts(new)[n] \in Int
  BY <1>1, StakesTyped
<1>. HIDE DEF P, last, old, new
<1>7. Sum(EntryAmounts(new), P \cup {last}) = e.amount + Sum(EntryAmounts(old), P)
  <2>1. IsFiniteSet(P \cup {last}) /\ \A n \in P \cup {last} : EntryAmounts(new)[n] \in Int
    BY <1>2, <1>5, <1>6, FS_AddElement
  <2>2. Sum(EntryAmounts(new), P \cup {last}) = EntryAmounts(new)[last] + Sum(EntryAmounts(new), (P \cup {last}) \ {last})
    BY <2>1, SumWithout
  <2>3. (P \cup {last}) \ {last} = P
    BY <1>4
  <2>4. \A n \in P : EntryAmounts(new)[n] = EntryAmounts(old)[n]
    BY <1>2, <1>5, <1>6, StakesTyped DEF old
  <2>5. Sum(EntryAmounts(new), P) = Sum(EntryAmounts(old), P)
    BY <1>5, <2>4, SumAgrees
  <2>. QED  BY <1>2, <1>6, <2>2, <2>3, <2>5
<1>8. Cardinality(P \cup {last}) = Cardinality(P) + 1 /\ Cardinality(P) \in Nat
  BY <1>4, <1>5, FS_AddElement, FS_CardinalityType
<1>. DEFINE a == Cardinality(P) * GasPerBet
            b == Cardinality(P \cup {last}) * GasPerBet
<1>9. a \in Int /\ b = a + GasPerBet
  <2>. DEFINE x == Cardinality(P)
  <2>. HIDE DEF x
  <2>1. x \in Nat /\ GasPerBet \in Nat
    BY <1>8, AmountsAssumption DEF x
  <2>2. (x + 1) * GasPerBet = x * GasPerBet + GasPerBet /\ x * GasPerBet \in Int
    BY <2>1
  <2>. QED  BY <1>8, <2>2 DEF x
<1>10. s.exposure = Sum(EntryAmounts(old), P) /\ s.cash + s.exposure + a = StartingBankroll + s.netPnl
  BY DEF Balanced, old, P
<1>11. s.cash \in Int /\ s.exposure \in Int /\ s.netPnl \in Int /\ e.amount \in Int /\ StartingBankroll \in Int /\ GasPerBet \in Int
  <2>1. e.amount \in Int
    BY <1>2, <1>6
  <2>. QED  BY <2>1, AmountsAssumption DEF SimInv, IsAccount
<1>. HIDE DEF a, b
<1>12. p.exposure = Sum(EntryAmounts(new), Pending(p)) /\ p.cash + p.exposure + b = StartingBankroll + p.netPnl
  BY <1>3, <1>4, <1>7, <1>9, <1>10, <1>11
<1>. QED  BY <1>4, <1>12 DEF Balanced, b, new

-----------------------------------------------------------------------------
\* The losses of a day, those of the bets still open included.

\* The most a bet can lose.
OneLoss == GlobalLimits.maxStake + GasPerBet + GasPerClaim

\* What each bet has come to, or may yet at worst.
Worst(entries) == [n \in DOMAIN entries |-> IF entries[n].status = "SETTLED" THEN Nets(entries)[n] ELSE -OneLoss]

\* The bets on rounds that close on the day d with a result.
ClosingOn(entries, all, d) ==
  {n \in DOMAIN entries : LET r == RoundAt(all, entries[n].epoch) IN r.outcome # "CANCELLED" /\ utcDay(r.closeTime) = d}

\* However the bets still open end, no day ends further past its limit than two losses.
LossesBounded(sim, all) ==
  GlobalLimits.maxDailyLoss # 0 =>
    \A d \in 0 .. LastDay :
      Sum(Worst(sim.entries), ClosingOn(sim.entries, all, d)) > -(GlobalLimits.maxDailyLoss + 2 * OneLoss)

LEMMA LimitsTyped ==
  OneLoss \in Nat /\ GlobalLimits.maxDailyLoss \in Nat /\ GlobalLimits.maxStake \in Nat
  /\ GasPerBet \in Nat /\ GasPerClaim \in Nat
<1>1. GlobalLimits.maxDailyLoss \in Nat /\ GlobalLimits.maxStake \in Nat
  BY LimitsAssumption DEF IsLimits
<1>. QED  BY <1>1, AmountsAssumption DEF OneLoss

LEMMA NetAtWorst ==
  ASSUME NEW e, IsBet(e), NEW r, IsOutcome(e, r)
  PROVE  tradeNetPnl(e) \in Int /\ tradeNetPnl(e) >= -OneLoss
<1>1. e.amount \in Nat /\ e.amount <= GlobalLimits.maxStake
  BY DEF IsBet, WithinLimits
<1>2. /\ e.payout \in Nat /\ e.claimGasCost \in Nat /\ e.claimGasCost <= GasPerClaim
      /\ tradeNetPnl(e) = e.payout - e.amount - (GasPerBet + e.claimGasCost)
  BY DEF IsOutcome
<1>. QED  BY <1>1, <1>2, LimitsTyped DEF OneLoss

\* What becomes of a bet is no worse than that.
LEMMA WorstTyped ==
  ASSUME NEW f, NEW all, IsRounds(f, all), NEW sim, SimInv(f, sim, all), NEW n \in DOMAIN sim.entries
  PROVE  /\ Worst(sim.entries)[n] \in Int /\ Worst(sim.entries)[n] >= -OneLoss
         /\ n \in ClosedIn(sim.entries) =>
              Worst(sim.entries)[n] = Nets(sim.entries)[n] /\ Nets(sim.entries)[n] \in Int
         /\ n \notin ClosedIn(sim.entries) => Worst(sim.entries)[n] = -OneLoss
<1>. DEFINE entries == sim.entries
            w == Worst(entries)[n]
            net == Nets(entries)[n]
<1>1. w = IF entries[n].status = "SETTLED" THEN net ELSE -OneLoss
  BY DEF Worst
<1>2. n \in ClosedIn(entries) <=> entries[n].status = "SETTLED"
  BY DEF ClosedIn
<1>3. n \in ClosedIn(entries) => net \in Int /\ net >= -OneLoss
  <2>. SUFFICES ASSUME n \in ClosedIn(entries) PROVE net \in Int /\ net >= -OneLoss
    OBVIOUS
  <2>1. IsOutcome(entries[n], RoundAt(all, entries[n].epoch)) /\ IsBet(entries[n])
    BY LedgerTyped DEF SimInv, IsLedger
  <2>2. net = tradeNetPnl(entries[n])
    BY <2>1, NetIs
  <2>. QED  BY <2>1, <2>2, NetAtWorst
<1>. HIDE DEF w, net
<1>4. w \in Int /\ w >= -OneLoss
  BY <1>1, <1>2, <1>3, LimitsTyped
<1>. QED  BY <1>1, <1>2, <1>3, <1>4 DEF w, net

LEMMA SettlingBounds ==
  ASSUME NEW f, NEW all, IsRounds(f, all), NEW sim, SimInv(f, sim, all), LossesBounded(sim, all), NEW t
  PROVE  LossesBounded(settleUpTo(sim, all, t), all)
<1>. DEFINE s == settleUpTo(sim, all, t)
            due == Due(sim, all, t)
            old == sim.entries
            new == s.entries
<1>1. /\ ClosedIn(new) = ClosedIn(old) \cup due /\ due \subseteq Pending(sim)
      /\ \A n \in DOMAIN old \ due : new[n] = old[n]
  BY SettledLedger
<1>2. SimInv(f, s, all)
  BY SettlingKeeps
<1>3. DOMAIN new = DOMAIN old /\ \A n \in DOMAIN old : new[n].epoch = old[n].epoch
  <2>1. IsSim(sim)
    BY DEF SimInv, Based
  <2>. QED  BY <2>1, SettlingKeepsEntries
<1>4. Pending(sim) = DOMAIN old \ ClosedIn(old) /\ IsFiniteSet(DOMAIN old)
  BY LedgerTyped
<1>5. \A n \in DOMAIN old : /\ Worst(old)[n] \in Int /\ Worst(old)[n] >= -OneLoss
                            /\ n \in ClosedIn(old) => Worst(old)[n] = Nets(old)[n]
                            /\ n \notin ClosedIn(old) => Worst(old)[n] = -OneLoss
  BY WorstTyped
<1>. HIDE DEF s, due
<1>6. \A n \in DOMAIN old : /\ Worst(new)[n] \in Int /\ Worst(new)[n] >= -OneLoss
                            /\ n \in ClosedIn(new) => Worst(new)[n] = Nets(new)[n]
                            /\ n \notin ClosedIn(new) => Worst(new)[n] = -OneLoss
  BY <1>2, <1>3, WorstTyped
<1>7. \A n \in DOMAIN old : Worst(old)[n] <= Worst(new)[n]
  <2>. SUFFICES ASSUME NEW n \in DOMAIN old PROVE Worst(old)[n] <= Worst(new)[n]
    OBVIOUS
  <2>1. CASE n \in ClosedIn(old)
    <3>1. n \notin due /\ n \in ClosedIn(new) /\ new[n] = old[n]
      BY <2>1, <1>1, <1>4
    <3>2. Nets(new)[n] = Nets(old)[n]
      BY <3>1, <1>3 DEF Nets
    <3>3. Worst(new)[n] = Worst(old)[n]
      BY <2>1, <3>1, <3>2, <1>5, <1>6
    <3>. QED  BY <3>3, <1>5
  <2>2. CASE n \notin ClosedIn(old)
    BY <2>2, <1>5, <1>6, LimitsTyped
  <2>. QED  BY <2>1, <2>2
<1>8. ASSUME NEW d \in 0 .. LastDay, GlobalLimits.maxDailyLoss # 0
      PROVE  Sum(Worst(new), ClosingOn(new, all, d)) > -(GlobalLimits.maxDailyLoss + 2 * OneLoss)
  <2>. DEFINE D == ClosingOn(old, all, d)
              bound == -(GlobalLimits.maxDailyLoss + 2 * OneLoss)
              a == Sum(Worst(old), D)
              b == Sum(Worst(new), D)
  <2>1. ClosingOn(new, all, d) = D
    BY <1>3 DEF ClosingOn
  <2>2. D \in SUBSET DOMAIN old
    BY DEF ClosingOn
  <2>3. a > bound
    BY <1>8 DEF LossesBounded
  <2>4. bound \in Int
    BY LimitsTyped
  <2>. HIDE DEF D, bound
  <2>5. a \in Int /\ b \in Int /\ a <= b
    <3>1. IsFiniteSet(D)
      BY <2>2, <1>4, FS_Subset
    <3>2. \A n \in D : Worst(old)[n] \in Int /\ Worst(new)[n] \in Int /\ Worst(old)[n] <= Worst(new)[n]
      BY <2>2, <1>5, <1>6, <1>7
    <3>. QED  BY <3>1, <3>2, SumGrows
  <2>. HIDE DEF a, b
  <2>6. b > bound
    BY <2>3, <2>4, <2>5
  <2>. QED  BY <2>1, <2>6 DEF b, bound
<1>9. LossesBounded(s, all)
  <2>. DEFINE Days == 0 .. LastDay
  <2>. HIDE DEF Days
  <2>1. GlobalLimits.maxDailyLoss # 0 =>
          \A d \in Days : Sum(Worst(new), ClosingOn(new, all, d)) > -(GlobalLimits.maxDailyLoss + 2 * OneLoss)
    BY <1>8 DEF Days
  <2>. QED  BY <2>1 DEF LossesBounded, Days
<1>. QED  BY <1>9 DEF s

\* What adds up from numbers that are not positive is not positive.
LEMMA SumOfLosses ==
  ASSUME NEW S, IsFiniteSet(S), NEW g, \A x \in S : g[x] \in Int /\ g[x] <= 0
  PROVE  Sum(g, S) \in Int /\ Sum(g, S) <= 0
<1>. DEFINE zero == [x \in S |-> 0]
<1>1. \A x \in S : zero[x] = 0
  OBVIOUS
<1>. HIDE DEF zero
<1>2. Sum(zero, S) <= Cardinality(S) * 0
  <2>. DEFINE k == 0
  <2>1. k \in Nat /\ \A x \in S : zero[x] \in 0 .. k
    BY <1>1
  <2>. HIDE DEF k
  <2>2. Sum(zero, S) <= Cardinality(S) * k
    BY <2>1, SumIsBounded
  <2>. QED  BY <2>2 DEF k
<1>3. Cardinality(S) \in Nat
  BY FS_CardinalityType
<1>4. Sum(g, S) \in Int /\ Sum(zero, S) \in Int /\ Sum(g, S) <= Sum(zero, S)
  BY <1>1, SumGrows
<1>. QED  BY <1>2, <1>3, <1>4
\* A bet with a result that is still open when the round with the epoch E is decided is on the round before.
LEMMA OpenIsPrevious ==
  ASSUME NEW r, HasTimes(r), r.outcome # "CANCELLED", NEW q, HasTimes(q), r.epoch < q.epoch,
         NEW now \in Int, q.startTime <= now, ~(knownAt(r) <= now)
  PROVE  r.epoch = q.epoch - 1
<1>. DEFINE a == r.epoch b == q.epoch x == a * Interval y == b * Interval
<1>1. a \in Nat /\ b \in Nat /\ a < b /\ Interval \in Nat \ {0}
  BY TimesAssumption DEF HasTimes
<1>2. x \in Int /\ y \in Int
  BY <1>1
<1>3. knownAt(r) = x + 2 * Interval /\ q.startTime = y
  BY DEF HasTimes
<1>. HIDE DEF x, y
<1>4. y < x + 2 * Interval
  BY <1>1, <1>2, <1>3
<1>. SUFFICES ASSUME a <= b - 2 PROVE FALSE
  BY <1>1
<1>. HIDE DEF a, b
<1>5. x + 2 * Interval <= y
  <2>1. (b - 2) * Interval = b * Interval - 2 * Interval
    BY <1>1
  <2>2. a * Interval <= (b - 2) * Interval
    <3>. DEFINE c == b - 2
    <3>1. c \in Nat /\ a <= c
      BY <1>1
    <3>. HIDE DEF c
    <3>2. a * Interval <= c * Interval
      BY <1>1, <3>1
    <3>. QED  BY <3>2 DEF c
  <2>3. x = a * Interval /\ y = b * Interval
    BY DEF x, y
  <2>. QED  BY <1>1, <1>2, <2>1, <2>2, <2>3
<1>. QED  BY <1>1, <1>2, <1>4, <1>5

\* So there is at most one, which may lose what one bet can.
LEMMA OpenLoseOne ==
  ASSUME NEW f, NEW all, IsRounds(f, all), NEW s, SimInv(f, s, all), NEW m \in DOMAIN all, HasTimes(all[m]),
         \A n \in DOMAIN s.entries : s.entries[n].epoch < all[m].epoch,
         NEW now \in Int, all[m].startTime <= now, UpTo(s, all, now),
         NEW open \in SUBSET (DOMAIN s.entries \ ClosedIn(s.entries)),
         \A n \in open : RoundAt(all, s.entries[n].epoch).outcome # "CANCELLED"
  PROVE  Sum(Worst(s.entries), open) \in Int /\ Sum(Worst(s.entries), open) >= -OneLoss
<1>. DEFINE entries == s.entries
            worst == Worst(entries)
            E == all[m].epoch
<1>1. IsFiniteSet(DOMAIN entries) /\ DOMAIN entries \in SUBSET Int
  BY LedgerTyped
<1>2. open \in SUBSET DOMAIN entries /\ IsFiniteSet(open)
  <2>1. open \in SUBSET DOMAIN entries
    OBVIOUS
  <2>. QED  BY <1>1, <2>1, FS_Subset
<1>3. \A n \in open : entries[n].epoch = E - 1
  <2>. SUFFICES ASSUME NEW n \in open PROVE entries[n].epoch = E - 1
    OBVIOUS
  <2>. DEFINE r == RoundAt(all, entries[n].epoch)
  <2>1. HasTimes(r) /\ r.epoch = entries[n].epoch
    BY <1>2, BetTimes
  <2>2. r.outcome # "CANCELLED" /\ entries[n].status # "SETTLED" /\ n \in DOMAIN entries
    BY <1>2 DEF ClosedIn
  <2>3. ~(knownAt(r) <= now)
    BY <2>2 DEF UpTo
  <2>4. r.epoch < E
    BY <2>1, <2>2
  <2>. HIDE DEF r
  <2>5. r.epoch = all[m].epoch - 1
    BY <2>1, <2>2, <2>3, <2>4, OpenIsPrevious DEF r
  <2>. QED  BY <2>1, <2>5
<1>4. \A j, k \in open : j = k
  <2>. SUFFICES ASSUME NEW j \in open, NEW k \in open PROVE j = k
    OBVIOUS
  <2>1. j \in DOMAIN entries /\ k \in DOMAIN entries /\ j \in Int /\ k \in Int
    BY <1>1, <1>2
  <2>2. entries[j].epoch = entries[k].epoch /\ entries[j].epoch \in Int
    BY <1>3, <2>1 DEF SimInv, IsLedger, IsBet
  <2>3. ~(j < k) /\ ~(k < j)
    BY <2>1, <2>2 DEF SimInv, IsLedger
  <2>. QED  BY <2>1, <2>3
<1>5. \A n \in open : worst[n] \in Int /\ worst[n] = -OneLoss
  BY <1>2, WorstTyped
<1>. HIDE DEF worst
<1>6. CASE open = {}
  <2>1. Sum(worst, open) = 0
    BY <1>6, SumOfNone
  <2>. QED  BY <2>1, LimitsTyped DEF worst
<1>7. CASE open # {}
  <2>1. PICK n \in open : TRUE
    BY <1>7
  <2>2. open \ {n} = {}
    BY <1>4
  <2>3. Sum(worst, open) = worst[n] + Sum(worst, open \ {n})
    BY <1>2, <1>5, SumWithout
  <2>4. Sum(worst, open \ {n}) = 0
    BY <2>2, SumOfNone
  <2>. QED  BY <2>3, <2>4, <1>5, LimitsTyped DEF worst
<1>. QED  BY <1>6, <1>7

\* When a bet is allowed, the day on which its round closes has not lost more than the limit.
LEMMA DayBelowLimit ==
  ASSUME NEW f, NEW all, IsRounds(f, all), NEW s, SimInv(f, s, all), CountersAgree(s),
         NEW now \in Nat, UpTo(s, all, now), utcDay(now) \in 0 .. LastDay,
         GlobalLimits.maxDailyLoss # 0, s.daily[utcDay(now)] > -GlobalLimits.maxDailyLoss,
         NEW close \in Nat, now < close
  PROVE  LET closed == ClosingOn(s.entries, all, utcDay(close)) \cap ClosedIn(s.entries) IN
         Sum(Worst(s.entries), closed) \in Int /\ Sum(Worst(s.entries), closed) > -GlobalLimits.maxDailyLoss
<1>. DEFINE entries == s.entries
            today == utcDay(now)
            day == utcDay(close)
            C == ClosedIn(entries)
            closed == ClosingOn(entries, all, day) \cap C
            refunds == ClosedOn(entries, today) \ closed
            nets == Nets(entries)
<1>1. IsFiniteSet(DOMAIN entries) /\ C \subseteq DOMAIN entries
  BY LedgerTyped DEF ClosedIn
<1>2. IsFiniteSet(closed) /\ IsFiniteSet(refunds) /\ closed \subseteq C /\ refunds \subseteq C
  <2>1. closed \in SUBSET DOMAIN entries /\ refunds \in SUBSET DOMAIN entries /\ closed \subseteq C /\ refunds \subseteq C
    BY <1>1 DEF ClosedOn, OnDay
  <2>. HIDE DEF closed, refunds
  <2>. QED  BY <1>1, <2>1, FS_Subset
<1>3. \A n \in C : nets[n] \in Int /\ Worst(entries)[n] = nets[n]
  BY <1>1, WorstTyped
<1>4. ASSUME NEW n \in C
      PROVE  LET r == RoundAt(all, entries[n].epoch) IN
             /\ HasTimes(r) /\ entries[n].settledAt = knownAt(r) /\ knownAt(r) <= now
             /\ r.outcome = "CANCELLED" => nets[n] <= 0
  <2>. DEFINE r == RoundAt(all, entries[n].epoch)
  <2>1. n \in DOMAIN entries /\ entries[n].status = "SETTLED"
    BY DEF ClosedIn
  <2>2. HasTimes(r) /\ knownAt(r) <= now
    BY <2>1, BetTimes DEF UpTo
  <2>3. IsOutcome(entries[n], r)
    BY LedgerTyped
  <2>4. nets[n] = tradeNetPnl(entries[n])
    BY <2>1, <2>3, NetIs
  <2>. QED  BY <2>2, <2>3, <2>4 DEF IsOutcome
<1>5. today \in Nat /\ day \in Nat /\ today <= day
  BY DayTyped
<1>6. Sum(Worst(entries), closed) = Sum(nets, closed) /\ Sum(nets, closed) \in Int
  <2>1. \A n \in closed : nets[n] \in Int /\ Worst(entries)[n] = nets[n]
    BY <1>2, <1>3
  <2>. HIDE DEF closed, nets
  <2>2. Sum(Worst(entries), closed) = Sum(nets, closed)
    BY <1>2, <2>1, SumAgrees
  <2>3. Sum(nets, closed) \in Int
    BY <1>2, <2>1, SumIsInt
  <2>. QED  BY <2>2, <2>3
<1>7. CASE day = today
  <2>1. closed \subseteq ClosedOn(entries, today)
    <3>. SUFFICES ASSUME NEW n \in closed PROVE n \in ClosedOn(entries, today)
      OBVIOUS
    <3>. DEFINE r == RoundAt(all, entries[n].epoch)
    <3>1. n \in C /\ r.outcome # "CANCELLED" /\ utcDay(r.closeTime) = today
      BY <1>7 DEF ClosingOn
    <3>2. entries[n].settledAt = r.closeTime
      BY <1>4, <3>1 DEF HasTimes
    <3>. QED  BY <3>1, <3>2 DEF ClosedOn, OnDay
  <2>2. ASSUME NEW n \in refunds PROVE nets[n] \in Int /\ nets[n] <= 0
    <3>. DEFINE r == RoundAt(all, entries[n].epoch)
    <3>1. n \in C /\ n \in DOMAIN entries /\ utcDay(entries[n].settledAt) = today /\ n \notin ClosingOn(entries, all, day)
      BY <1>1 DEF ClosedOn, OnDay
    <3>2. r.outcome = "CANCELLED"
      <4>. SUFFICES ASSUME r.outcome # "CANCELLED" PROVE FALSE
        OBVIOUS
      <4>1. entries[n].settledAt = r.closeTime
        BY <1>4, <3>1 DEF HasTimes
      <4>. QED  BY <3>1, <4>1, <1>7 DEF ClosingOn
    <3>. QED  BY <3>1, <3>2, <1>3, <1>4
  <2>3. ClosedOn(entries, today) = closed \cup refunds /\ closed \cap refunds = {}
    BY <2>1
  <2>4. s.daily[today] = Sum(nets, ClosedOn(entries, today))
    BY DEF CountersAgree
  <2>5. \A n \in closed \cup refunds : nets[n] \in Int
    BY <1>2, <1>3
  <2>. HIDE DEF closed, refunds, nets
  <2>6. Sum(nets, closed \cup refunds) = Sum(nets, closed) + Sum(nets, refunds)
    BY <1>2, <2>3, <2>5, SumOfUnion
  <2>7. Sum(nets, refunds) \in Int /\ Sum(nets, refunds) <= 0
    BY <1>2, <2>2, SumOfLosses
  <2>. DEFINE a == Sum(nets, closed) b == Sum(nets, refunds) limit == -GlobalLimits.maxDailyLoss
  <2>8. a + b > limit /\ a \in Int /\ b \in Int /\ b <= 0 /\ limit \in Int
    BY <2>3, <2>4, <2>6, <2>7, <1>6, LimitsTyped
  <2>. HIDE DEF a, b, limit
  <2>9. a > limit
    BY <2>8
  <2>. QED  BY <1>6, <2>9 DEF a, limit, closed
<1>8. CASE day # today
  <2>1. closed = {}
    <3>. SUFFICES ASSUME NEW n \in closed PROVE FALSE
      OBVIOUS
    <3>. DEFINE r == RoundAt(all, entries[n].epoch)
    <3>1. n \in C /\ r.outcome # "CANCELLED" /\ utcDay(r.closeTime) = day
      BY DEF ClosingOn
    <3>2. r.closeTime \in Nat /\ r.closeTime <= now
      BY <1>4, <3>1 DEF HasTimes
    <3>3. utcDay(r.closeTime) <= today
      BY <3>2, DayTyped
    <3>. QED  BY <3>1, <3>3, <1>5, <1>8
  <2>2. Sum(nets, closed) = 0
    BY <2>1, SumOfNone
  <2>. QED  BY <1>6, <2>2, LimitsTyped
<1>. QED  BY <1>7, <1>8
LEMMA BettingBounds ==
  ASSUME NEW f, f # "PANCAKESWAP_V1", NEW all, IsRounds(f, all), NEW s, SimInv(f, s, all), NEW m \in DOMAIN all,
         \A n \in DOMAIN s.entries : s.entries[n].epoch < all[m].epoch,
         CountersAgree(s), LossesBounded(s, all),
         NEW now \in Nat, UpTo(s, all, now), utcDay(now) \in 0 .. LastDay,
         all[m].startTime <= now, now < all[m].closeTime,
         NEW p, NEW e, IsBetting(p, s, e, all[m], now)
  PROVE  LossesBounded(p, all)
<1>. DEFINE old == s.entries
            new == p.entries
            last == Len(old) + 1
            C == ClosedIn(old)
            max == GlobalLimits.maxDailyLoss
            day == utcDay(all[m].closeTime)
            bound == -(max + 2 * OneLoss)
<1>1. /\ DOMAIN new = (DOMAIN old) \cup {last} /\ Len(old) \in Nat /\ DOMAIN old = 1 .. Len(old)
      /\ new[last] = e /\ \A n \in DOMAIN old : new[n] = old[n]
  <2>1. IsExtended(new, old, e)
    BY BettingKeeps
  <2>. QED  BY <2>1 DEF IsExtended
<1>2. SimInv(f, p, all) /\ ClosedIn(new) = C /\ \A n \in C : Nets(new)[n] = Nets(old)[n]
  <2>1. SimInv(f, p, all)
    BY BettingKeeps
  <2>2. ClosedIn(p.entries) = ClosedIn(s.entries)
        /\ \A n \in ClosedIn(s.entries) : Nets(p.entries)[n] = Nets(s.entries)[n]
    <3>1. /\ ClosedIn(p.entries) = ClosedIn(s.entries)
          /\ \A n \in ClosedIn(s.entries) : Nets(p.entries)[n] = Nets(s.entries)[n]
          /\ CountersAgree(p)
      BY BettingCounts, Zenon
    <3>. QED  BY <3>1, Zenon
  <2>. QED  BY <2>1, <2>2, Zenon
<1>3. IsPending(e) /\ e.epoch = all[m].epoch /\ IsBet(e) /\ e.asked.state.dailyNetPnl = s.daily[utcDay(now)]
  BY Zenon DEF IsBetting
<1>4. last \in DOMAIN new /\ last \notin DOMAIN old /\ C \subseteq DOMAIN old /\ IsFiniteSet(DOMAIN old)
  BY <1>1, LedgerTyped DEF ClosedIn
<1>5. ASSUME NEW n \in DOMAIN old
      PROVE  Worst(old)[n] \in Int /\ Worst(new)[n] = Worst(old)[n]
  <2>1. /\ Worst(old)[n] \in Int
        /\ n \in C => Worst(old)[n] = Nets(old)[n]
        /\ n \notin C => Worst(old)[n] = -OneLoss
    BY WorstTyped
  <2>2. n \in DOMAIN new
    BY <1>1
  <2>3. /\ n \in C => Worst(new)[n] = Nets(new)[n]
        /\ n \notin C => Worst(new)[n] = -OneLoss
    BY <1>2, <2>2, WorstTyped
  <2>. QED  BY <1>2, <2>1, <2>3
<1>6. Worst(new)[last] = -OneLoss
  <2>1. last \notin C
    BY <1>4
  <2>. QED  BY <1>2, <1>4, <2>1, WorstTyped
<1>7. HasTimes(all[m]) /\ RoundAt(all, e.epoch) = all[m]
  BY <1>3, TimesOf, RoundAtIs DEF IsRounds
<1>8. s.daily[utcDay(now)] > -max \/ max = 0
  <2>1. Passes("MAX_DAILY_LOSS", GlobalLimits, e.asked, e.amount)
    BY <1>3 DEF IsBet, WithinLimits, Rules
  <2>2. GlobalLimits.maxDailyLoss = 0 \/ e.asked.state.dailyNetPnl > -GlobalLimits.maxDailyLoss
    BY <2>1 DEF Passes
  <2>. QED  BY <1>3, <2>2
<1>9. ASSUME NEW d \in 0 .. LastDay, max # 0
      PROVE  Sum(Worst(new), ClosingOn(new, all, d)) > bound
  <2>. DEFINE P == ClosingOn(old, all, d)
              closed == P \cap C
              open == P \ C
  <2>1. P \in SUBSET DOMAIN old /\ last \notin P
    BY <1>4 DEF ClosingOn
  <2>2. \A n \in P : RoundAt(all, old[n].epoch).outcome # "CANCELLED"
    BY DEF ClosingOn
  <2>3. Sum(Worst(old), P) > bound
    BY <1>9 DEF LossesBounded
  <2>4. ClosingOn(new, all, d) = P \/ (ClosingOn(new, all, d) = P \cup {last} /\ d = day)
    <3>1. \A n \in DOMAIN old : n \in ClosingOn(new, all, d) <=> n \in P
      BY <1>1 DEF ClosingOn
    <3>2. last \in ClosingOn(new, all, d) => d = day
      BY <1>1, <1>7, <1>4 DEF ClosingOn
    <3>3. ClosingOn(new, all, d) \subseteq (DOMAIN old) \cup {last}
      BY <1>1 DEF ClosingOn
    <3>. HIDE DEF P
    <3>. QED  BY <2>1, <3>1, <3>2, <3>3
  <2>5. closed = ClosingOn(old, all, d) \cap ClosedIn(old)
    OBVIOUS
  <2>. HIDE DEF P
  <2>6. IsFiniteSet(P) /\ IsFiniteSet(closed) /\ IsFiniteSet(open)
    <3>1. closed \in SUBSET DOMAIN old /\ open \in SUBSET DOMAIN old
      BY <2>1
    <3>. HIDE DEF closed, open
    <3>. QED  BY <3>1, <2>1, <1>4, FS_Subset
  <2>7. Sum(Worst(new), P) = Sum(Worst(old), P) /\ Sum(Worst(old), P) \in Int
    <3>1. \A n \in P : Worst(old)[n] \in Int /\ Worst(new)[n] = Worst(old)[n]
      BY <2>1, <1>5
    <3>. QED  BY <2>6, <3>1, SumAgrees, SumIsInt
  <2>8. CASE ClosingOn(new, all, d) = P
    BY <2>3, <2>7, <2>8
  <2>9. CASE ClosingOn(new, all, d) = P \cup {last} /\ d = day
    <3>1. Sum(Worst(new), P \cup {last}) = Sum(Worst(old), P) + (-OneLoss)
      <4>1. IsFiniteSet(P \cup {last}) /\ (P \cup {last}) \ {last} = P
        BY <2>1, <2>6, FS_AddElement
      <4>2. \A n \in P \cup {last} : Worst(new)[n] \in Int
        BY <2>1, <1>5, <1>6, LimitsTyped
      <4>3. Sum(Worst(new), P \cup {last}) = Worst(new)[last] + Sum(Worst(new), (P \cup {last}) \ {last})
        BY <4>1, <4>2, SumWithout
      <4>. DEFINE a == Sum(Worst(old), P)
      <4>4. Sum(Worst(new), P \cup {last}) = -OneLoss + a /\ a \in Int
        BY <4>1, <4>3, <2>7, <1>6
      <4>. HIDE DEF a
      <4>5. Sum(Worst(new), P \cup {last}) = a + (-OneLoss)
        BY <4>4, LimitsTyped
      <4>. QED  BY <4>5 DEF a
    <3>2. Sum(Worst(old), P) = Sum(Worst(old), closed) + Sum(Worst(old), open)
      <4>1. closed \cup open = P /\ closed \cap open = {}
        OBVIOUS
      <4>2. \A n \in closed \cup open : Worst(old)[n] \in Int
        BY <2>1, <1>5
      <4>3. Sum(Worst(old), closed \cup open) = Sum(Worst(old), closed) + Sum(Worst(old), open)
        BY <2>6, <4>1, <4>2, SumOfUnion
      <4>. QED  BY <4>1, <4>3
    <3>3. Sum(Worst(old), open) \in Int /\ Sum(Worst(old), open) >= -OneLoss
      <4>1. open \in SUBSET (DOMAIN old \ ClosedIn(old)) /\ \A n \in open : RoundAt(all, old[n].epoch).outcome # "CANCELLED"
        BY <2>1, <2>2
      <4>2. now \in Int
        OBVIOUS
      <4>. HIDE DEF open, old
      <4>. QED  BY <1>7, <4>1, <4>2, OpenLoseOne DEF old
    <3>4. Sum(Worst(old), closed) \in Int /\ Sum(Worst(old), closed) > -max
      <4>. DEFINE close == all[m].closeTime
      <4>1. close \in Nat /\ now < close /\ GlobalLimits.maxDailyLoss # 0 /\ s.daily[utcDay(now)] > -GlobalLimits.maxDailyLoss
        BY <1>7, <1>8, <1>9 DEF HasTimes
      <4>2. closed = ClosingOn(s.entries, all, utcDay(close)) \cap ClosedIn(s.entries)
        BY <2>5, <2>9
      <4>. HIDE DEF close, closed
      <4>3. LET these == ClosingOn(s.entries, all, utcDay(close)) \cap ClosedIn(s.entries) IN
            Sum(Worst(s.entries), these) \in Int /\ Sum(Worst(s.entries), these) > -GlobalLimits.maxDailyLoss
        BY <4>1, DayBelowLimit
      <4>. QED  BY <4>2, <4>3
    <3>. DEFINE a == Sum(Worst(old), closed) b == Sum(Worst(old), open) all2 == Sum(Worst(new), P \cup {last})
    <3>5. all2 = (a + b) + (-OneLoss) /\ a \in Int /\ b \in Int /\ b >= -OneLoss /\ a > -max
      BY <3>1, <3>2, <3>3, <3>4
    <3>. HIDE DEF a, b, all2
    <3>6. max \in Nat /\ OneLoss \in Nat
      BY LimitsTyped
    <3>7. all2 > bound
      <4>. HIDE DEF max
      <4>. QED  BY <3>5, <3>6
    <3>. QED  BY <2>9, <3>7 DEF all2
  <2>. QED  BY <2>4, <2>8, <2>9
<1>10. LossesBounded(p, all)
  <2>. DEFINE Days == 0 .. LastDay
  <2>. HIDE DEF Days
  <2>1. max # 0 => \A d \in Days : Sum(Worst(new), ClosingOn(new, all, d)) > bound
    BY <1>9 DEF Days
  <2>. QED  BY <2>1 DEF LossesBounded, Days
<1>. QED  BY <1>10

-----------------------------------------------------------------------------
\* What is kept from one decision to the next.

\* The simulation sim of the rounds `all`, settled up to t.
Kept(f, sim, all, t) ==
  /\ SimInv(f, sim, all) /\ UpTo(sim, all, t)
  /\ CountersAgree(sim) /\ Balanced(sim) /\ LossesBounded(sim, all)
  /\ \A n \in DOMAIN sim.entries : sim.entries[n].epoch <= MaxRounds

LEMMA KeptOnMore ==
  ASSUME NEW f, NEW all, IsRounds(f, all), NEW more, IsRounds(f, more),
         \A n \in DOMAIN all : n \in DOMAIN more /\ more[n] = all[n],
         NEW sim, NEW t, Kept(f, sim, all, t)
  PROVE  Kept(f, sim, more, t)
<1>1. /\ SimInv(f, sim, more)
      /\ \A n \in DOMAIN sim.entries : RoundAt(more, sim.entries[n].epoch) = RoundAt(all, sim.entries[n].epoch)
  BY LedgerOnMore DEF Kept
<1>2. UpTo(sim, more, t)
  BY <1>1 DEF Kept, UpTo
<1>3. \A d : ClosingOn(sim.entries, more, d) = ClosingOn(sim.entries, all, d)
  BY <1>1, Zenon DEF ClosingOn
<1>4. LossesBounded(sim, more)
  <2>1. LossesBounded(sim, all)
    BY DEF Kept
  <2>. QED  BY <1>3, <2>1, Zenon DEF LossesBounded
<1>. QED  BY <1>1, <1>2, <1>4 DEF Kept

\* With no bet, nothing depends on the time.
LEMMA KeptWhenever ==
  ASSUME NEW f, NEW sim, NEW all, NEW t0, Kept(f, sim, all, t0), sim.entries = << >>, NEW t
  PROVE  Kept(f, sim, all, t)
<1>1. UpTo(sim, all, t)
  BY DEF UpTo
<1>. QED  BY <1>1 DEF Kept

LEMMA KeptBySettling ==
  ASSUME NEW f, NEW all, IsRounds(f, all), NEW sim, NEW t0, Kept(f, sim, all, t0),
         NEW t \in Int, sim.entries # << >> => t0 \in Int /\ t0 <= t
  PROVE  Kept(f, settleUpTo(sim, all, t), all, t)
<1>. DEFINE s == settleUpTo(sim, all, t)
<1>1. PICK u \in Int : u <= t /\ Kept(f, sim, all, u)
  <2>1. CASE sim.entries = << >>
    <3>1. Kept(f, sim, all, t)
      BY <2>1, KeptWhenever
    <3>. QED  BY <3>1
  <2>2. CASE sim.entries # << >>
    BY <2>2
  <2>. QED  BY <2>1, <2>2
<1>2. SimInv(f, sim, all) /\ UpTo(sim, all, u) /\ CountersAgree(sim) /\ Balanced(sim) /\ LossesBounded(sim, all)
      /\ \A n \in DOMAIN sim.entries : sim.entries[n].epoch <= MaxRounds
  BY <1>1 DEF Kept
<1>3. SimInv(f, s, all)
  BY <1>2, SettlingKeeps
<1>4. UpTo(s, all, t)
  BY <1>1, <1>2, SettlingIsUpTo
<1>5. CountersAgree(s) /\ Balanced(s)
  BY <1>1, <1>2, SettlingCounts, SettlingBalances
<1>6. LossesBounded(s, all)
  BY <1>2, SettlingBounds
<1>7. DOMAIN s.entries = DOMAIN sim.entries /\ \A n \in DOMAIN sim.entries : s.entries[n].epoch = sim.entries[n].epoch
  <2>1. IsSim(sim)
    BY <1>2 DEF SimInv, Based
  <2>. QED  BY <2>1, SettlingKeepsEntries
<1>. HIDE DEF s
<1>. QED  BY <1>2, <1>3, <1>4, <1>5, <1>6, <1>7 DEF Kept, s

LEMMA KeptByBetting ==
  ASSUME NEW f, f # "PANCAKESWAP_V1", NEW all, IsRounds(f, all), NEW m \in DOMAIN all,
         NEW now \in Nat, NEW s, Kept(f, s, all, now), all[m].epoch <= MaxRounds,
         \A n \in DOMAIN s.entries : s.entries[n].epoch < all[m].epoch,
         all[m].startTime <= now, now < all[m].closeTime,
         NEW p, NEW e, IsBetting(p, s, e, all[m], now)
  PROVE  Kept(f, p, all, now)
<1>1. SimInv(f, s, all) /\ UpTo(s, all, now) /\ CountersAgree(s) /\ Balanced(s) /\ LossesBounded(s, all)
  BY DEF Kept
<1>2. SimInv(f, p, all) /\ IsExtended(p.entries, s.entries, e)
  BY <1>1, BettingKeeps
<1>3. CountersAgree(p) /\ Balanced(p)
  BY <1>1, BettingCounts, BettingBalances
<1>4. UpTo(p, all, now)
  BY <1>1, BettingIsUpTo
<1>5. utcDay(now) \in 0 .. LastDay
  <2>1. HasTimes(all[m])
    BY TimesOf DEF IsRounds
  <2>2. now <= all[m].closeTime + BufferSeconds
    BY <2>1, MarketAssumption DEF HasTimes
  <2>. QED  BY <2>1, <2>2, DayOfReplay
<1>6. LossesBounded(p, all)
  BY <1>1, <1>5, BettingBounds
<1>7. \A n \in DOMAIN p.entries : p.entries[n].epoch <= MaxRounds
  <2>1. e.epoch = all[m].epoch
    BY Zenon DEF IsBetting
  <2>. QED  BY <2>1, <1>2 DEF IsExtended, Kept
<1>. QED  BY <1>2, <1>3, <1>4, <1>6, <1>7 DEF Kept

\* Decisions are taken in the order of the rounds.
LEMMA DecisionTimesGrow ==
  ASSUME NEW f, f # "PANCAKESWAP_V1", NEW q, IsRound(f, q), NEW r, IsRound(f, r), q.epoch < r.epoch,
         NEW cfg, ValidConfig(cfg)
  PROVE  DecisionTime(cfg, q) <= DecisionTime(cfg, r)
<1>1. HasTimes(q) /\ HasTimes(r)
  BY TimesOf
<1>2. cfg.entrySeconds \in Nat \ {0}
  BY DEF ValidConfig
<1>. DEFINE a == q.startTime c == r.startTime
            b == q.lockTime - cfg.entrySeconds
            d == r.lockTime - cfg.entrySeconds
<1>3. a \in Int /\ b \in Int /\ c \in Int /\ d \in Int /\ a <= c /\ b <= d
  <2>. DEFINE x == q.epoch y == r.epoch
  <2>1. x \in Nat /\ y \in Nat /\ x <= y /\ Interval \in Nat
    BY <1>1, TimesAssumption DEF HasTimes
  <2>2. x * Interval <= y * Interval /\ x * Interval \in Nat /\ y * Interval \in Nat
    <3>. HIDE DEF x, y
    <3>. QED  BY <2>1
  <2>3. a = x * Interval /\ q.lockTime = x * Interval + Interval /\ c = y * Interval /\ r.lockTime = y * Interval + Interval
    BY <1>1 DEF HasTimes
  <2>. DEFINE g == x * Interval h == y * Interval
  <2>4. g \in Nat /\ h \in Nat /\ g <= h /\ a = g /\ c = h /\ b = g + Interval - cfg.entrySeconds /\ d = h + Interval - cfg.entrySeconds
    <3>1. g \in Nat /\ h \in Nat /\ g <= h
      BY <2>2
    <3>2. a = g /\ c = h /\ q.lockTime = g + Interval /\ r.lockTime = h + Interval
      BY <2>3
    <3>3. b = g + Interval - cfg.entrySeconds /\ d = h + Interval - cfg.entrySeconds
      <4>1. b = q.lockTime - cfg.entrySeconds /\ d = r.lockTime - cfg.entrySeconds
        OBVIOUS
      <4>. HIDE DEF g, h, b, d
      <4>. QED  BY <1>2, <2>1, <3>1, <3>2, <4>1
    <3>. HIDE DEF g, h, a, b, c, d
    <3>. QED  BY <3>1, <3>2, <3>3
  <2>. HIDE DEF g, h, a, b, c, d
  <2>. QED  BY <1>2, <2>1, <2>4
<1>4. DecisionTime(cfg, q) = Max({a, b}) /\ DecisionTime(cfg, r) = Max({c, d})
  BY DEF DecisionTime
<1>. HIDE DEF a, b, c, d
<1>5. Max({a, b}) \in {a, b}
  <2>1. a \in Int /\ b \in Int
    BY <1>3
  <2>. QED  BY <2>1, MaxOfTwo, Zenon
<1>6. c <= Max({c, d}) /\ d <= Max({c, d}) /\ Max({c, d}) \in {c, d}
  <2>1. c \in Int /\ d \in Int
    BY <1>3
  <2>. QED  BY <2>1, MaxOfTwo, Zenon
<1>. QED  BY <1>3, <1>4, <1>5, <1>6

\* A decision keeps it, for the time of the next one.
LEMMA KeptByEvaluate ==
  ASSUME NEW f, NEW all, IsRounds(f, all), all # << >>, Timed(Last(all)), Last(all).epoch <= MaxRounds,
         NEW cfg, ValidConfig(cfg), cfg.plugin \in Plugins,
         NEW sim, NEW t0, Kept(f, sim, all, t0),
         sim.entries # << >> => t0 \in Int /\ t0 <= DecisionTime(cfg, Last(all)),
         \A n \in DOMAIN sim.entries : sim.entries[n].epoch < Last(all).epoch
  PROVE  Kept(f, Evaluate(cfg, sim, all), all, DecisionTime(cfg, Last(all)))
<1>. DEFINE round == Last(all)
            now == DecisionTime(cfg, round)
            s == settleUpTo(sim, all, now)
            p == Evaluate(cfg, sim, all)
            m == Len(all)
<1>1. m \in DOMAIN all /\ round = all[m]
  <2>1. all \in Seq(Range(all))
    BY DEF IsRounds
  <2>. QED  BY <2>1, LastOf
<1>2. IsRound(f, round) /\ f # "PANCAKESWAP_V1"
  <2>1. IsRound(f, round)
    BY <1>1 DEF IsRounds
  <2>. QED  BY <2>1, TimedIn
<1>3. now \in Nat /\ round.startTime <= now /\ now < round.closeTime
  BY <1>2, DecisionTimeTyped
<1>4. Kept(f, s, all, now)
  <2>. HIDE DEF now
  <2>1. now \in Int /\ (sim.entries # << >> => t0 \in Int /\ t0 <= now)
    BY <1>3 DEF now
  <2>. QED  BY <2>1, KeptBySettling
<1>5. p = s \/ \E e : IsBetting(p, s, e, round, now)
  <2>1. SimInv(f, sim, all)
    BY DEF Kept
  <2>. QED  BY <1>2, <2>1, EvaluateIs
<1>6. \A n \in DOMAIN s.entries : s.entries[n].epoch < round.epoch
  <2>1. IsSim(sim)
    BY DEF Kept, SimInv, Based
  <2>2. DOMAIN s.entries = DOMAIN sim.entries /\ \A n \in DOMAIN sim.entries : s.entries[n].epoch = sim.entries[n].epoch
    BY <2>1, SettlingKeepsEntries
  <2>. HIDE DEF s
  <2>. QED  BY <2>2
<1>. HIDE DEF p, s, now
<1>7. ASSUME NEW e, IsBetting(p, s, e, round, now) PROVE Kept(f, p, all, now)
  <2>1. IsBetting(p, s, e, all[m], now) /\ all[m].epoch <= MaxRounds
        /\ (\A n \in DOMAIN s.entries : s.entries[n].epoch < all[m].epoch)
        /\ all[m].startTime <= now /\ now < all[m].closeTime
    BY <1>1, <1>3, <1>6, <1>7
  <2>. HIDE DEF m, round
  <2>. QED  BY <1>1, <1>2, <1>3, <1>4, <2>1, KeptByBetting
<1>8. Kept(f, p, all, now)
  BY <1>4, <1>5, <1>7
<1>. QED  BY <1>8 DEF p, now

LEMMA NewSimIsKept ==
  ASSUME NEW f, NEW all, NEW t
  PROVE  Kept(f, NewSim, all, t)
<1>1. SimInv(f, NewSim, all) /\ NewSim.entries = << >>
  BY NewSimKept
<1>2. NewSim.netPnl = 0 /\ NewSim.lossStreak = 0 /\ NewSim.lastLoss = Null /\ NewSim.daily = [d \in 0 .. LastDay |-> 0]
  BY Zenon DEF NewSim
<1>3. ClosedIn(NewSim.entries) = {} /\ WonIn(NewSim.entries, {}) = {} /\ LostIn(NewSim.entries, {}) = {}
      /\ (\A d : ClosedOn(NewSim.entries, d) = {} /\ ClosingOn(NewSim.entries, all, d) = {})
  BY <1>1 DEF ClosedIn, WonIn, LostIn, ClosedOn, OnDay, ClosingOn
<1>. DEFINE D == 0 .. LastDay
<1>4. \A d \in D : NewSim.daily[d] = 0
  <2>. HIDE DEF D
  <2>1. NewSim.daily = [d \in D |-> 0]
    BY <1>2 DEF D
  <2>. QED  BY <2>1
<1>5. \A g : Sum(g, {}) = 0
  BY SumOfNone
<1>6. CountersAgree(NewSim)
  <2>1. Unrecovered({}, {}) = {} /\ Cardinality({}) = 0
    BY FS_EmptySet DEF Unrecovered
  <2>. HIDE DEF D
  <2>2. \A d \in D : NewSim.daily[d] = Sum(Nets(NewSim.entries), ClosedOn(NewSim.entries, d))
    BY <1>3, <1>4, <1>5
  <2>. QED  BY <1>2, <1>3, <1>5, <2>1, <2>2 DEF CountersAgree, D
<1>7. LossesBounded(NewSim, all)
  <2>. HIDE DEF D
  <2>. SUFFICES ASSUME GlobalLimits.maxDailyLoss # 0, NEW d \in D
                PROVE  Sum(Worst(NewSim.entries), ClosingOn(NewSim.entries, all, d))
                         > -(GlobalLimits.maxDailyLoss + 2 * OneLoss)
    BY DEF LossesBounded, D
  <2>1. Sum(Worst(NewSim.entries), ClosingOn(NewSim.entries, all, d)) = 0
    BY <1>3, <1>5
  <2>. QED  BY <2>1, LimitsTyped
<1>8. UpTo(NewSim, all, t) /\ \A n \in DOMAIN NewSim.entries : NewSim.entries[n].epoch <= MaxRounds
  BY <1>1 DEF UpTo
<1>9. Balanced(NewSim)
  <2>1. Pending(NewSim) = {}
    BY <1>1 DEF Pending
  <2>2. NewSim.exposure = 0 /\ NewSim.cash = StartingBankroll
    BY Zenon DEF NewSim
  <2>3. Sum(EntryAmounts(NewSim.entries), Pending(NewSim)) = 0 /\ Cardinality(Pending(NewSim)) = 0
    BY <1>5, <2>1, FS_EmptySet
  <2>. QED  BY <1>2, <2>2, <2>3, AmountsAssumption DEF Balanced
<1>. QED  BY <1>1, <1>6, <1>7, <1>8, <1>9 DEF Kept

-----------------------------------------------------------------------------
\* The invariant of the replay.

\* The time up to which the trades of strategy k are settled.
End == (Last(rounds).epoch + 2) * Interval + BufferSeconds

TimeOf(k) == IF finished THEN End ELSE DecisionTime(Specs[k], Last(rounds))

AllKept == \A k \in Keys : Kept(market, sims[k], rounds, TimeOf(k))

ReplayInv == BaseInv /\ AllKept

LEMMA ReplayInit == Init => ReplayInv
<1>. SUFFICES ASSUME Init PROVE ReplayInv
  OBVIOUS
<1>1. sims = [k \in Keys |-> NewSim]
  BY DEF Init
<1>2. AllKept
  BY <1>1, NewSimIsKept DEF AllKept
<1>. QED  BY <1>2, BaseInit DEF ReplayInv, AllKept

\* The rounds of the bets of a strategy.
LEMMA RoundsOfBets ==
  ASSUME ReplayInv, NEW k \in Keys, sims[k].entries # << >>
  PROVE  /\ rounds # << >> /\ IsRound(market, Last(rounds)) /\ market # "PANCAKESWAP_V1"
         /\ \A n \in DOMAIN rounds : rounds[n].epoch <= Last(rounds).epoch
         /\ \A n \in DOMAIN sims[k].entries : \E m \in DOMAIN rounds : rounds[m].epoch = sims[k].entries[n].epoch
<1>1. /\ IsRounds(market, rounds) /\ SimInv(market, sims[k], rounds)
  BY DEF ReplayInv, AllKept, BaseInv, RoundsInv, Kept
<1>2. \A n \in DOMAIN sims[k].entries : \E m \in DOMAIN rounds : rounds[m].epoch = sims[k].entries[n].epoch
  BY <1>1 DEF SimInv, Based, OnRounds
<1>3. DOMAIN sims[k].entries # {}
  BY <1>1 DEF SimInv, Based, IsSim
<1>4. rounds \in Seq(Range(rounds)) /\ rounds # << >>
  BY <1>1, <1>2, <1>3 DEF IsRounds
<1>5. Last(rounds) = rounds[Len(rounds)] /\ Len(rounds) \in DOMAIN rounds
  BY <1>4, LastOf
<1>6. \A n \in DOMAIN rounds : rounds[n].epoch <= Last(rounds).epoch
  <2>. SUFFICES ASSUME NEW n \in DOMAIN rounds PROVE rounds[n].epoch <= rounds[Len(rounds)].epoch
    BY <1>5
  <2>1. n = Len(rounds) \/ n < Len(rounds)
    BY <1>4
  <2>2. rounds[n].epoch \in Nat /\ rounds[Len(rounds)].epoch \in Nat
    BY <1>1, <1>5 DEF IsRounds, IsRound
  <2>3. n < Len(rounds) => rounds[n].epoch < rounds[Len(rounds)].epoch
    BY <1>1, <1>5 DEF IsRounds
  <2>. QED  BY <2>1, <2>2, <2>3
<1>. QED  BY <1>1, <1>2, <1>4, <1>5, <1>6 DEF IsRounds, SimInv

\* A strategy that has bet is asked again later, and the last settling comes later still.
LEMMA NextDecision ==
  ASSUME ReplayInv, NEW k \in Keys, sims[k].entries # << >>, NEW shape \in Shapes, AllAfter(shape) # rounds
  PROVE  LET now == DecisionTime(Specs[k], Last(AllAfter(shape)))
             t0 == DecisionTime(Specs[k], Last(rounds))
         IN  t0 \in Int /\ t0 <= now /\ Timed(Last(AllAfter(shape)))
<1>. DEFINE all == AllAfter(shape)
<1>1. IsRounds(market, all) /\ IsRounds(market, rounds) /\ RoundsInv
  BY RoundsStep DEF ReplayInv, AllKept, BaseInv, RoundsInv
<1>2. all # << >> /\ Last(all).epoch = Len(past) + 1
  BY <1>1, AllAfterIsMore
<1>3. IsRound(market, Last(rounds)) /\ market # "PANCAKESWAP_V1" /\ rounds # << >>
  BY RoundsOfBets
<1>4. Last(rounds) = rounds[Len(rounds)] /\ Len(rounds) \in DOMAIN rounds
  <2>1. rounds \in Seq(Range(rounds))
    BY <1>1 DEF IsRounds
  <2>. QED  BY <1>3, <2>1, LastOf
<1>5. Last(rounds).epoch < Last(all).epoch
  <2>1. all = rounds \/ \E r : /\ all = Append(rounds, r) /\ r.epoch = Len(past) + 1
                               /\ \A n \in DOMAIN rounds : rounds[n].epoch < r.epoch
    BY <1>1, RoundsStep
  <2>. HIDE DEF all
  <2>. QED  BY <1>2, <1>4, <2>1 DEF all
<1>6. IsRound(market, Last(all))
  <2>1. all \in Seq(Range(all)) /\ all # << >>
    BY <1>1, <1>2 DEF IsRounds
  <2>2. Last(all) = all[Len(all)] /\ Len(all) \in DOMAIN all
    BY <2>1, LastOf
  <2>. QED  BY <2>2, <1>1 DEF IsRounds
<1>7. ValidConfig(Specs[k])
  BY SpecIsValid
<1>. HIDE DEF all
<1>8. DecisionTime(Specs[k], Last(rounds)) <= DecisionTime(Specs[k], Last(all))
  BY <1>3, <1>5, <1>6, <1>7, DecisionTimesGrow
<1>9. DecisionTime(Specs[k], Last(rounds)) \in Nat
  BY <1>3, <1>7, DecisionTimeTyped
<1>10. Timed(Last(all))
  BY <1>3, <1>6, TimesOf DEF HasTimes
<1>. QED  BY <1>8, <1>9, <1>10 DEF all

LEMMA EndIsLater ==
  ASSUME ReplayInv, NEW k \in Keys, sims[k].entries # << >>
  PROVE  LET t0 == DecisionTime(Specs[k], Last(rounds)) IN t0 \in Int /\ End \in Int /\ t0 <= End
<1>. DEFINE t0 == DecisionTime(Specs[k], Last(rounds))
<1>1. IsRound(market, Last(rounds)) /\ market # "PANCAKESWAP_V1"
  BY RoundsOfBets
<1>2. ValidConfig(Specs[k])
  BY SpecIsValid
<1>3. t0 \in Nat /\ t0 < Last(rounds).closeTime
  BY <1>1, <1>2, DecisionTimeTyped
<1>4. End \in Int /\ Last(rounds).closeTime <= End /\ Last(rounds).closeTime \in Int
  <2>1. HasTimes(Last(rounds)) /\ Last(rounds).closeTime = (Last(rounds).epoch + 2) * Interval
    BY <1>1, TimesOf DEF IsRound, TimeIn
  <2>. QED  BY <2>1, MarketAssumption DEF End, HasTimes
<1>. HIDE DEF t0
<1>5. t0 \in Int /\ t0 <= End
  BY <1>3, <1>4
<1>. QED  BY <1>4, <1>5 DEF t0

LEMMA ReplayNext == ReplayInv /\ [Next]_vars => ReplayInv'
<1>. SUFFICES ASSUME ReplayInv, [Next]_vars PROVE ReplayInv'
  OBVIOUS
<1>1. BaseInv'
  BY BaseNext DEF ReplayInv, AllKept
<1>2. ASSUME NEW shape \in Shapes, Step(shape)
      PROVE  AllKept'
  <2>. DEFINE all == AllAfter(shape)
  <2>1. /\ rounds' = all /\ market' = market /\ ~finished /\ ~finished'
        /\ sims' = [k \in Keys |-> SimAfter(k, shape)] /\ Len(past) + 1 <= MaxRounds
    BY <1>2, StepIs
  <2>2. IsRounds(market, all) /\ IsRounds(market, rounds)
    BY RoundsStep DEF ReplayInv, AllKept, BaseInv, RoundsInv
  <2>3. /\ \A n \in DOMAIN rounds : n \in DOMAIN all /\ all[n] = rounds[n]
        /\ all # rounds => /\ all # << >> /\ Last(all).epoch = Len(past) + 1
                           /\ Len(all) = Len(rounds) + 1 /\ Front(all) = rounds
    BY AllAfterIsMore DEF ReplayInv, AllKept, BaseInv
  <2>4. all # rounds => \A n \in DOMAIN rounds : rounds[n].epoch < Last(all).epoch
    <3>1. all = rounds \/ \E r : /\ all = Append(rounds, r) /\ r.epoch = Len(past) + 1
                                 /\ \A n \in DOMAIN rounds : rounds[n].epoch < r.epoch
      BY RoundsStep DEF ReplayInv, AllKept, BaseInv
    <3>2. Len(past) \in Nat
      BY DEF ReplayInv, AllKept, BaseInv, RoundsInv
    <3>. QED  BY <2>3, <3>1
  <2>5. Len(past) \in Nat /\ MaxRounds \in Nat
    BY TimesAssumption DEF ReplayInv, AllKept, BaseInv, RoundsInv
  <2>. HIDE DEF all
  <2>. SUFFICES ASSUME NEW k \in Keys PROVE Kept(market, sims'[k], all, DecisionTime(Specs[k], Last(all)))
    BY <2>1 DEF AllKept, TimeOf
  <2>. DEFINE sim == sims[k] cfg == Specs[k] t0 == DecisionTime(cfg, Last(rounds))
              now == DecisionTime(cfg, Last(all))
  <2>6. Kept(market, sim, rounds, t0)
    BY <2>1 DEF ReplayInv, AllKept, TimeOf
  <2>7. Kept(market, sim, all, t0)
    BY <2>2, <2>3, <2>6, KeptOnMore
  <2>8. ValidConfig(cfg) /\ cfg.plugin \in Plugins
    BY SpecIsValid
  <2>9. CASE all = rounds
    <3>1. sims'[k] = sim
      BY <2>1, <2>9 DEF SimAfter, all
    <3>. QED  BY <3>1, <2>9, <2>6
  <2>10. ASSUME all # rounds, sim.entries # << >>
         PROVE  t0 \in Int /\ t0 <= now /\ Timed(Last(all))
    BY <2>10, NextDecision DEF all
  <2>11. CASE all # rounds /\ ~Timed(Last(all))
    <3>1. sims'[k] = sim
      BY <2>1, <2>11 DEF SimAfter, all
    <3>2. sim.entries = << >>
      BY <2>10, <2>11
    <3>3. Kept(market, sim, all, now)
      BY <2>7, <3>2, KeptWhenever
    <3>. QED  BY <3>1, <3>3
  <2>12. CASE all # rounds /\ Timed(Last(all))
    <3>1. sims'[k] = Evaluate(cfg, sim, all)
      BY <2>1, <2>12 DEF SimAfter, all
    <3>2. all # << >> /\ Last(all).epoch <= MaxRounds
      BY <2>1, <2>3, <2>5, <2>12
    <3>3. \A n \in DOMAIN sim.entries : sim.entries[n].epoch < Last(all).epoch
      <4>1. \A n \in DOMAIN sim.entries : \E m \in DOMAIN rounds : rounds[m].epoch = sim.entries[n].epoch
        BY <2>6 DEF Kept, SimInv, Based, OnRounds
      <4>. QED  BY <4>1, <2>4, <2>12
    <3>4. sim.entries # << >> => t0 \in Int /\ t0 <= now
      BY <2>10, <2>12
    <3>. HIDE DEF t0
    <3>5. Kept(market, Evaluate(cfg, sim, all), all, DecisionTime(cfg, Last(all)))
      BY <2>2, <2>7, <2>8, <2>12, <3>2, <3>3, <3>4, KeptByEvaluate
    <3>. QED  BY <3>1, <3>5
  <2>. QED  BY <2>9, <2>11, <2>12
<1>3. ASSUME Finish PROVE AllKept'
  <2>1. /\ market' = market /\ rounds' = rounds /\ ~finished /\ finished'
        /\ sims' = [k \in Keys |-> settleUpTo(sims[k], rounds, End)]
    BY <1>3 DEF Finish, End
  <2>. SUFFICES ASSUME NEW k \in Keys PROVE Kept(market, settleUpTo(sims[k], rounds, End), rounds, TimeOf(k)')
    BY <2>1 DEF AllKept
  <2>2. TimeOf(k)' = End
    BY <2>1 DEF TimeOf, End
  <2>. DEFINE sim == sims[k] t0 == DecisionTime(Specs[k], Last(rounds))
  <2>3. Kept(market, sim, rounds, t0)
    BY <2>1 DEF ReplayInv, AllKept, TimeOf
  <2>4. IsRounds(market, rounds)
    BY DEF ReplayInv, AllKept, BaseInv, RoundsInv
  <2>5. CASE sim.entries = << >>
    <3>1. Kept(market, sim, rounds, 0)
      BY <2>3, <2>5, KeptWhenever
    <3>2. Kept(market, settleUpTo(sim, rounds, 0), rounds, 0)
      BY <2>4, <3>1, KeptBySettling
    <3>3. settleUpTo(sim, rounds, End) = settleUpTo(sim, rounds, 0)
      <4>1. Due(sim, rounds, End) = {} /\ Due(sim, rounds, 0) = {}
        BY <2>5 DEF Due, Pending
      <4>2. SettledEntries(sim, rounds, End) = SettledEntries(sim, rounds, 0)
        BY <4>1 DEF SettledEntries
      <4>. QED  BY <4>1, <4>2, SettlingBooks
    <3>4. settleUpTo(sim, rounds, 0).entries = << >>
      <4>1. IsSim(sim)
        BY <2>3 DEF Kept, SimInv, Based
      <4>2. DOMAIN settleUpTo(sim, rounds, 0).entries = DOMAIN sim.entries
        BY <4>1, SettlingKeepsEntries
      <4>3. IsSim(settleUpTo(sim, rounds, 0))
        BY <3>2 DEF Kept, SimInv, Based
      <4>. QED  BY <2>5, <4>2, <4>3 DEF IsSim
    <3>. HIDE DEF sim
    <3>5. Kept(market, settleUpTo(sim, rounds, 0), rounds, End)
      BY <3>2, <3>4, KeptWhenever
    <3>. QED  BY <3>3, <3>5, <2>2 DEF sim
  <2>6. CASE sim.entries # << >>
    <3>1. t0 \in Int /\ End \in Int /\ t0 <= End
      BY <2>6, EndIsLater
    <3>. HIDE DEF t0
    <3>2. Kept(market, settleUpTo(sims[k], rounds, End), rounds, End)
      BY <2>3, <2>4, <3>1, KeptBySettling
    <3>. QED  BY <3>2, <2>2
  <2>. QED  BY <2>5, <2>6
<1>4. ASSUME UNCHANGED vars PROVE AllKept'
  BY <1>4 DEF ReplayInv, AllKept, TimeOf, End, vars
<1>5. AllKept'
  BY <1>2, <1>3, <1>4 DEF Next
<1>. QED  BY <1>1, <1>5 DEF ReplayInv, AllKept

LEMMA ReplayAlways == Spec => []ReplayInv
<1>. QED  BY ReplayInit, ReplayNext, PTL DEF Spec

-----------------------------------------------------------------------------
\* What follows from it.

\* A strategy's own limits never let through a bet the global limits forbid, for every configuration
\* and every course of the rounds (mergeLimits, evaluateRisk).
THEOREM EveryBetIsWithinTheGlobalLimits == Spec => []GlobalLimitsHold
<1>1. ReplayInv => GlobalLimitsHold
  BY DEF ReplayInv, AllKept, Kept, SimInv, IsLedger, IsBet, GlobalLimitsHold
<1>. QED  BY <1>1, ReplayAlways, PTL

\* The bets that are won or lost on a day are those on rounds that close on it, and known.
LEMMA DecidedOn ==
  ASSUME NEW f, NEW all, IsRounds(f, all), NEW sim, SimInv(f, sim, all), NEW d
  PROVE  {n \in DOMAIN sim.entries : /\ sim.entries[n].result \in {"WON", "LOST"}
                                     /\ utcDay(sim.entries[n].settledAt) = d}
           = ClosingOn(sim.entries, all, d) \cap ClosedIn(sim.entries)
<1>. DEFINE entries == sim.entries
            decided == {n \in DOMAIN entries : entries[n].result \in {"WON", "LOST"} /\ utcDay(entries[n].settledAt) = d}
            closed == ClosingOn(entries, all, d) \cap ClosedIn(entries)
<1>. SUFFICES ASSUME NEW n \in DOMAIN entries
              PROVE  n \in decided <=> n \in closed
  BY DEF ClosingOn
<1>. DEFINE r == RoundAt(all, entries[n].epoch)
<1>1. CASE n \in ClosedIn(entries)
  <2>1. IsOutcome(entries[n], r)
    BY <1>1, LedgerTyped
  <2>2. HasTimes(r)
    BY BetTimes
  <2>3. entries[n].result \in TradeResults /\ entries[n].settledAt = knownAt(r)
        /\ (entries[n].result = "REFUNDED" <=> r.outcome = "CANCELLED")
    BY <2>1 DEF IsOutcome
  <2>4. entries[n].result \in {"WON", "LOST"} <=> r.outcome # "CANCELLED"
    BY <2>3 DEF TradeResults
  <2>5. r.outcome # "CANCELLED" => entries[n].settledAt = r.closeTime
    BY <2>2, <2>3 DEF HasTimes
  <2>6. n \in ClosingOn(entries, all, d) <=> r.outcome # "CANCELLED" /\ utcDay(r.closeTime) = d
    BY DEF ClosingOn
  <2>. HIDE DEF r
  <2>. QED  BY <1>1, <2>4, <2>5, <2>6
<1>2. CASE n \notin ClosedIn(entries)
  <2>1. n \in Pending(sim)
    BY <1>2, LedgerTyped
  <2>2. IsPending(entries[n])
    BY <2>1, LedgerTyped
  <2>3. entries[n].result \notin {"WON", "LOST"}
    BY <2>2, ResultsAssumption DEF IsPending, TradeResults
  <2>. QED  BY <1>2, <2>3
<1>. QED  BY <1>1, <1>2

\* No day ends more than two losing bets past the daily loss limit, whatever the strategies, the rounds
\* and the offset at which the bets are placed: what a day can still lose is bounded from the moment a
\* bet is placed, and settling it can only better that (evaluateRisk MAX_DAILY_LOSS, settle).
THEOREM DailyLossIsBounded == Spec => []DailyLossBounded
<1>1. ASSUME NEW f, NEW all, IsRounds(f, all), NEW sim, SimInv(f, sim, all), LossesBounded(sim, all),
             GlobalLimits.maxDailyLoss # 0, NEW d \in 0 .. LastDay
      PROVE  LET entries == sim.entries
                 decided == {n \in DOMAIN entries : entries[n].result \in {"WON", "LOST"}}
             IN  Sum(Nets(entries), {n \in decided : utcDay(entries[n].settledAt) = d})
                   > -(GlobalLimits.maxDailyLoss + 2 * OneLoss)
  <2>. DEFINE entries == sim.entries
              decided == {n \in DOMAIN entries : entries[n].result \in {"WON", "LOST"}}
              these == {n \in decided : utcDay(entries[n].settledAt) = d}
              P == ClosingOn(entries, all, d)
              C == ClosedIn(entries)
              closed == P \cap C
              open == P \ C
              worst == Worst(entries)
              nets == Nets(entries)
  <2>1. these = closed
    <3>1. these = {n \in DOMAIN entries : /\ entries[n].result \in {"WON", "LOST"}
                                          /\ utcDay(entries[n].settledAt) = d}
      OBVIOUS
    <3>. QED  BY <1>1, <3>1, DecidedOn
  <2>2. P \in SUBSET DOMAIN entries /\ IsFiniteSet(DOMAIN entries)
    BY <1>1, LedgerTyped DEF ClosingOn
  <2>3. \A n \in DOMAIN entries : /\ worst[n] \in Int
                                  /\ n \in C => worst[n] = nets[n]
                                  /\ n \notin C => worst[n] = -OneLoss
    BY <1>1, WorstTyped
  <2>4. Sum(worst, P) > -(GlobalLimits.maxDailyLoss + 2 * OneLoss)
    BY <1>1 DEF LossesBounded
  <2>. HIDE DEF these, P, C, worst, nets, entries
  <2>5. IsFiniteSet(closed) /\ IsFiniteSet(open) /\ closed \cup open = P /\ closed \cap open = {}
    <3>1. closed \in SUBSET DOMAIN entries /\ open \in SUBSET DOMAIN entries
      BY <2>2
    <3>2. closed \cup open = P /\ closed \cap open = {}
      OBVIOUS
    <3>. HIDE DEF closed, open
    <3>. QED  BY <2>2, <3>1, <3>2, FS_Subset
  <2>6. (\A n \in closed : worst[n] = nets[n] /\ worst[n] \in Int) /\ \A n \in open : worst[n] = -OneLoss
    BY <2>2, <2>3
  <2>. HIDE DEF closed, open
  <2>7. Sum(nets, closed) = Sum(worst, closed) /\ Sum(worst, closed) \in Int
    BY <2>5, <2>6, SumAgrees, SumIsInt
  <2>8. Sum(worst, open) \in Int /\ Sum(worst, open) <= 0
    <3>1. \A n \in open : worst[n] \in Int /\ worst[n] <= 0
      BY <2>6, LimitsTyped
    <3>. QED  BY <2>5, <3>1, SumOfLosses
  <2>9. Sum(worst, P) = Sum(worst, closed) + Sum(worst, open)
    <3>1. \A n \in closed \cup open : worst[n] \in Int
      BY <2>6, LimitsTyped
    <3>2. Sum(worst, closed \cup open) = Sum(worst, closed) + Sum(worst, open)
      BY <2>5, <3>1, SumOfUnion
    <3>. QED  BY <2>5, <3>2
  <2>. DEFINE a == Sum(worst, closed) b == Sum(worst, open) bound == -(GlobalLimits.maxDailyLoss + 2 * OneLoss)
  <2>10. a + b > bound /\ a \in Int /\ b \in Int /\ b <= 0 /\ bound \in Int
    BY <2>4, <2>7, <2>8, <2>9, LimitsTyped
  <2>. HIDE DEF a, b, bound
  <2>11. a > bound
    BY <2>10
  <2>12. Sum(nets, these) > bound
    BY <2>1, <2>7, <2>11 DEF a
  <2>. QED  BY <2>12 DEF bound, these, nets, entries
<1>2. ReplayInv => DailyLossBounded
  <2>. SUFFICES ASSUME ReplayInv, GlobalLimits.maxDailyLoss # 0, NEW k \in Keys, NEW d \in 0 .. LastDay
                PROVE  LET entries == sims[k].entries
                           decided == {n \in DOMAIN entries : entries[n].result \in {"WON", "LOST"}}
                       IN  Sum(Nets(entries), {n \in decided : utcDay(entries[n].settledAt) = d})
                             > -(GlobalLimits.maxDailyLoss + 2 * OneLoss)
    BY Zenon DEF DailyLossBounded, OneLoss
  <2>1. IsRounds(market, rounds) /\ SimInv(market, sims[k], rounds) /\ LossesBounded(sims[k], rounds)
    BY DEF ReplayInv, AllKept, Kept, BaseInv, RoundsInv
  <2>. QED  BY <1>1, <2>1
<1>. QED  BY <1>2, ReplayAlways, PTL

\* A simulated bet is paid to the unit what the contract would have paid it, for every archive the
\* rounds are read from and every stake and pool (simulatedPayout, settledPayout).
THEOREM BetsArePaidLikeTheContract == Spec => []PaidLikeTheContract
<1>1. ASSUME NEW q, NEW r, q.outcome = r.outcome, q.bullAmount = r.bullAmount, q.bearAmount = r.bearAmount,
             r.bullAmount \in Nat, r.bearAmount \in Nat, NEW d \in Directions, NEW stake \in Nat \ {0}
      PROVE  simulatedPayout(r, r.outcome, d, stake) = settledPayout(WithBet(q, d, stake), q.outcome, d, stake)
  <2>. DEFINE b == WithBet(q, d, stake)
              reward == Reward(r.bullAmount + r.bearAmount + stake)
              side == SideOf(r, d) + stake
  <2>1. SideOf(q, d) = SideOf(r, d)
    BY <1>1 DEF SideOf
  <2>2. b.rewardAmount = reward /\ (r.outcome = d => b.rewardBase = side)
    <3>1. b.rewardAmount = Reward(q.bullAmount + q.bearAmount + stake)
      BY DEF WithBet
    <3>2. opposite(d) # d
      BY DEF opposite, Directions
    <3>3. q.outcome = d => b.rewardBase = SideOf(q, d) + stake
      <4>. DEFINE base == CASE q.outcome = d -> SideOf(q, d) + stake
                            [] q.outcome = opposite(d) -> SideOf(q, opposite(d))
                            [] OTHER -> 0
      <4>1. b.rewardBase = base
        BY Zenon DEF WithBet
      <4>2. q.outcome = d => base = SideOf(q, d) + stake
        BY <3>2, Zenon
      <4>. QED  BY <4>1, <4>2, Zenon
    <3>. HIDE DEF b
    <3>. QED  BY <1>1, <2>1, <3>1, <3>3
  <2>3. side # 0
    BY <1>1 DEF SideOf
  <2>. HIDE DEF b, reward, side
  <2>4. d # "CANCELLED"
    BY DEF Directions
  <2>5. simulatedPayout(r, r.outcome, d, stake)
          = IF r.outcome = "CANCELLED" THEN stake ELSE IF r.outcome # d THEN 0 ELSE (stake * reward) \div side
    BY Zenon DEF simulatedPayout, reward, side
  <2>6. settledPayout(b, r.outcome, d, stake)
          = IF r.outcome = "CANCELLED" THEN stake
            ELSE IF r.outcome # d \/ b.rewardBase = 0 THEN 0 ELSE (stake * b.rewardAmount) \div b.rewardBase
    BY Zenon DEF settledPayout
  <2>7. r.outcome = d => b.rewardBase # 0
    BY <2>2, <2>3
  <2>8. r.outcome = d => (stake * b.rewardAmount) \div b.rewardBase = (stake * reward) \div side
    BY <2>2
  <2>. QED  BY <1>1, <2>4, <2>5, <2>6, <2>7, <2>8, Zenon DEF b
<1>2. ReplayInv => PaidLikeTheContract
  <2>. SUFFICES ASSUME ReplayInv, NEW k \in Keys, NEW n \in DOMAIN sims[k].entries \ Pending(sims[k])
                PROVE  LET e == sims[k].entries[n]
                           q == FinalRound(e.epoch, past[e.epoch])
                       IN  e.payout = settledPayout(WithBet(q, e.direction, e.amount), q.outcome, e.direction, e.amount)
    BY DEF PaidLikeTheContract
  <2>. DEFINE sim == sims[k]
              e == sim.entries[n]
              shape == past[e.epoch]
              q == FinalRound(e.epoch, shape)
              r == RoundAt(rounds, e.epoch)
  <2>1. /\ IsRounds(market, rounds) /\ SimInv(market, sim, rounds) /\ OnRounds(sim, rounds)
        /\ SaysOf(market, rounds, past) /\ past \in Seq(AllShapes)
    BY DEF ReplayInv, AllKept, Kept, BaseInv, RoundsInv, SimInv, Based
  <2>2. n \in ClosedIn(sim.entries) /\ n \in DOMAIN sim.entries
    BY <2>1, LedgerTyped
  <2>3. IsResolved(e, r)
    BY <2>1, <2>2, LedgerTyped
  <2>4. IsBet(e)
    BY <2>1, <2>2 DEF SimInv, IsLedger
  <2>5. PICK m \in DOMAIN rounds : rounds[m] = r /\ r.epoch = e.epoch
    BY <2>1, <2>2, RoundOf
  <2>6. IsRound(market, r) /\ e.epoch \in DOMAIN past /\ Says(market, r, e.epoch, shape)
    BY <2>1, <2>5 DEF IsRounds, SaysOf
  <2>7. IsShape(shape)
    BY <2>1, <2>6, ShapesTyped
  <2>8. Says("PANCAKESWAP_V2", q, e.epoch, shape)
    BY <2>4, <2>7, FinalSays DEF IsBet
  <2>. HIDE DEF q, r, e, shape
  <2>9. q.outcome = r.outcome /\ q.bullAmount = r.bullAmount /\ q.bearAmount = r.bearAmount
    BY <2>6, <2>8, Zenon DEF Says
  <2>10. r.bullAmount \in Nat /\ r.bearAmount \in Nat /\ e.direction \in Directions /\ e.amount \in Nat \ {0}
    BY <2>4, <2>6 DEF IsRound, IsBet
  <2>11. e.payout = simulatedPayout(r, r.outcome, e.direction, e.amount)
    BY <2>3 DEF IsResolved
  <2>12. simulatedPayout(r, r.outcome, e.direction, e.amount)
           = settledPayout(WithBet(q, e.direction, e.amount), q.outcome, e.direction, e.amount)
    BY <1>1, <2>9, <2>10
  <2>13. e.payout = settledPayout(WithBet(q, e.direction, e.amount), q.outcome, e.direction, e.amount)
    BY <2>11, <2>12
  <2>. QED  BY <2>13 DEF q, shape, e
<1>. QED  BY <1>2, ReplayAlways, PTL

\* What counts in a simulation's ledger is what is resolved.
LEMMA RealizedIs ==
  ASSUME NEW f, NEW all, IsRounds(f, all), NEW sim, SimInv(f, sim, all), NEW n \in DOMAIN sim.entries
  PROVE  tradeNetPnl(sim.entries[n]) # Null <=> n \in ClosedIn(sim.entries)
<1>. DEFINE e == sim.entries[n]
<1>1. CASE n \in ClosedIn(sim.entries)
  <2>1. tradeNetPnl(e) \in Int
    <3>1. IsOutcome(e, RoundAt(all, e.epoch))
      BY <1>1, LedgerTyped
    <3>. QED  BY <3>1 DEF IsOutcome
  <2>. HIDE DEF e
  <2>2. tradeNetPnl(e) # Null
    BY <2>1, NullAssumption
  <2>. QED  BY <1>1, <2>2 DEF e
<1>2. CASE n \notin ClosedIn(sim.entries)
  <2>1. n \in Pending(sim)
    BY <1>2, LedgerTyped
  <2>2. IsPending(e)
    BY <2>1, LedgerTyped
  <2>3. e.status = "CONFIRMED"
    BY <2>2 DEF IsPending
  <2>. HIDE DEF e
  <2>4. tradeGrossPnl(e) = Null /\ e.status # "FAILED"
    BY <2>3 DEF tradeGrossPnl
  <2>5. tradeNetPnl(e) = Null
    BY <2>4, Zenon DEF tradeNetPnl
  <2>. QED  BY <1>2, <2>5 DEF e
<1>. QED  BY <1>1, <1>2

\* The values of a function on a finite set.
LEMMA ImageIsFinite ==
  ASSUME NEW S, IsFiniteSet(S), NEW g
  PROVE  IsFiniteSet({g[x] : x \in S})
<1>. DEFINE T == {g[x] : x \in S}
            h == [x \in S |-> g[x]]
<1>1. h \in [S -> T] /\ \A t \in T : \E x \in S : h[x] = t
  OBVIOUS
<1>. HIDE DEF T, h
<1>2. h \in Surjection(S, T)
  BY <1>1 DEF Surjection
<1>3. IsFiniteSet(T)
  BY <1>2, FS_Surjection
<1>. QED  BY <1>3 DEF T

\* The last of some entries has the highest epoch.
LEMMA LatestIs ==
  ASSUME NEW epochs, NEW lost \in SUBSET Int, IsFiniteSet(lost), lost # {},
         \A n \in lost : epochs[n] \in Int,
         \A m, n \in lost : m < n => epochs[m] < epochs[n]
  PROVE  Max({epochs[n] : n \in lost}) = epochs[Max(lost)]
<1>. DEFINE E == {epochs[n] : n \in lost}
            a == Max(lost)
            b == Max(E)
<1>1. a \in lost /\ \A n \in lost : n <= a
  BY MaxIs
<1>2. E \in SUBSET Int /\ E # {}
  OBVIOUS
<1>3. IsFiniteSet(E)
  BY ImageIsFinite
<1>. HIDE DEF E
<1>4. b \in E /\ \A x \in E : x <= b
  BY <1>2, <1>3, MaxIs
<1>. HIDE DEF a, b
<1>5. PICK n \in lost : b = epochs[n]
  BY <1>4 DEF E
<1>6. epochs[a] <= b
  BY <1>1, <1>4 DEF E
<1>7. b <= epochs[a]
  <2>1. n = a \/ n < a
    BY <1>1
  <2>2. n < a => epochs[n] < epochs[a]
    BY <1>1
  <2>. QED  BY <1>1, <1>5, <2>1, <2>2
<1>8. b \in Int /\ epochs[a] \in Int
  BY <1>1, <1>5
<1>9. b = epochs[a]
  BY <1>6, <1>7, <1>8
<1>. QED  BY <1>9 DEF a, b, E

\* The day the ledger of the theorem below is looked at: the last one on which a bet was resolved.
LastClosing(sim) == Max({0} \cup {utcDay(sim.entries[n].settledAt) : n \in DOMAIN sim.entries \ Pending(sim)})

LEMMA LastClosingIs ==
  ASSUME NEW f, NEW all, IsRounds(f, all), NEW sim, SimInv(f, sim, all),
         \A n \in DOMAIN sim.entries : sim.entries[n].epoch <= MaxRounds
  PROVE  /\ LastClosing(sim) \in 0 .. LastDay
         /\ \A n \in ClosedIn(sim.entries) : /\ utcDay(sim.entries[n].settledAt) \in Nat
                                             /\ utcDay(sim.entries[n].settledAt) <= LastClosing(sim)
<1>. DEFINE entries == sim.entries
            C == ClosedIn(entries)
            days == {utcDay(entries[n].settledAt) : n \in C}
            S == {0} \cup days
            D == 0 .. LastDay
<1>1. IsFiniteSet(C) /\ DOMAIN entries \ Pending(sim) = C
  <2>1. IsFiniteSet(DOMAIN entries) /\ C \in SUBSET DOMAIN entries /\ Pending(sim) = DOMAIN entries \ C
    BY LedgerTyped DEF ClosedIn
  <2>. HIDE DEF C
  <2>. QED  BY <2>1, FS_Subset
<1>2. \A n \in C : utcDay(entries[n].settledAt) \in D
  <2>. SUFFICES ASSUME NEW n \in C PROVE utcDay(entries[n].settledAt) \in D
    OBVIOUS
  <2>. DEFINE r == RoundAt(all, entries[n].epoch)
  <2>1. n \in DOMAIN entries
    BY DEF ClosedIn
  <2>2. HasTimes(r) /\ r.epoch = entries[n].epoch
    BY <2>1, BetTimes
  <2>3. IsOutcome(entries[n], r)
    BY LedgerTyped
  <2>4. entries[n].settledAt \in Nat /\ entries[n].settledAt = knownAt(r)
    BY <2>3 DEF IsOutcome
  <2>5. entries[n].settledAt <= r.closeTime + BufferSeconds /\ r.epoch <= MaxRounds
    BY <2>1, <2>2, <2>4 DEF HasTimes
  <2>. HIDE DEF r
  <2>. QED  BY <2>2, <2>4, <2>5, DayOfReplay
<1>3. 0 \in D
  <2>1. (2 * MaxRounds + 3) * Interval + BufferSeconds \in Nat
    BY TimesAssumption, MarketAssumption
  <2>2. LastDay \in Nat
    <3>. DEFINE end == (2 * MaxRounds + 3) * Interval + BufferSeconds
    <3>. HIDE DEF end
    <3>1. end \in Nat
      BY <2>1 DEF end
    <3>2. utcDay(end) \in Nat
      BY <3>1, DayTyped
    <3>. QED  BY <3>2 DEF LastDay, end
  <2>. QED  BY <2>2
<1>4. D \in SUBSET Nat
  OBVIOUS
<1>5. LastClosing(sim) = Max(S)
  BY <1>1 DEF LastClosing
<1>6. IsFiniteSet(days)
  <2>. DEFINE g == [n \in C |-> utcDay(entries[n].settledAt)]
  <2>. HIDE DEF C
  <2>1. days = {g[n] : n \in C}
    OBVIOUS
  <2>. HIDE DEF g, days
  <2>. QED  BY <1>1, <2>1, ImageIsFinite
<1>. HIDE DEF D
<1>7. days \in SUBSET D
  BY <1>2
<1>. HIDE DEF days
<1>8. IsFiniteSet(S)
  BY <1>6, FS_AddElement
<1>9. S \in SUBSET D /\ S # {} /\ days \subseteq S /\ S \in SUBSET Int
  BY <1>3, <1>4, <1>7
<1>. HIDE DEF S
<1>10. Max(S) \in S /\ \A x \in S : x <= Max(S)
  BY <1>8, <1>9, MaxIs
<1>11. \A n \in C : utcDay(entries[n].settledAt) \in days
  BY DEF days
<1>. QED  BY <1>2, <1>4, <1>5, <1>9, <1>10, <1>11 DEF D

\* The ledger of a simulation, judged as paper and live judge theirs.
LEMMA LedgerSays ==
  ASSUME NEW f, NEW all, IsRounds(f, all), NEW sim, SimInv(f, sim, all), CountersAgree(sim),
         \A n \in DOMAIN sim.entries : sim.entries[n].epoch <= MaxRounds
  PROVE  LET stats == ledgerStats(sim.entries, DOMAIN sim.entries, LastClosing(sim)) IN
         /\ stats.strategyNet = sim.netPnl /\ stats.dailyNet = sim.daily[LastClosing(sim)]
         /\ stats.lossStreak = sim.lossStreak /\ stats.lastLossEpoch = sim.lastLoss
<1>. DEFINE entries == sim.entries
            today == LastClosing(sim)
            C == ClosedIn(entries)
            nets == Nets(entries)
            realized == {n \in DOMAIN entries : tradeNetPnl(entries[n]) # Null}
            mine == realized \cap DOMAIN entries
            decided == {n \in mine : entries[n].status = "SETTLED" /\ entries[n].result # "REFUNDED"}
            lost == {n \in decided : entries[n].result = "LOST"}
            won == decided \ lost
            after == {n \in lost : \A m \in won : entries[m].epoch < entries[n].epoch}
            then == {n \in realized : utcDay(RealizedAt(entries[n])) >= today}
            stats == ledgerStats(entries, DOMAIN entries, today)
<1>1. /\ stats.dailyNet = Sum(nets, then) /\ stats.strategyNet = Sum(nets, mine)
      /\ stats.lossStreak = Cardinality(after)
      /\ stats.lastLossEpoch = IF lost = {} THEN Null ELSE Max({entries[n].epoch : n \in lost})
  <2>. DEFINE daily == Sum(nets, then)
              strategy == Sum(nets, mine)
              streak == Cardinality(after)
              last == IF lost = {} THEN Null ELSE Max({entries[n].epoch : n \in lost})
  <2>1. stats = [dailyNet |-> daily, strategyNet |-> strategy, lossStreak |-> streak, lastLossEpoch |-> last]
    BY Zenon DEF ledgerStats
  <2>. HIDE DEF stats, daily, strategy, streak, last
  <2>2. stats.dailyNet = daily /\ stats.strategyNet = strategy /\ stats.lossStreak = streak /\ stats.lastLossEpoch = last
    BY <2>1
  <2>. QED  BY <2>2, Zenon DEF daily, strategy, streak, last
<1>2. C \subseteq DOMAIN entries /\ IsFiniteSet(DOMAIN entries) /\ DOMAIN entries \in SUBSET Int
  BY LedgerTyped DEF ClosedIn
<1>3. realized = C /\ mine = C
  <2>1. \A n \in DOMAIN entries : tradeNetPnl(entries[n]) # Null <=> n \in C
    BY RealizedIs
  <2>. HIDE DEF C
  <2>. QED  BY <1>2, <2>1
<1>4. \A n \in C : /\ entries[n].status = "SETTLED"
                   /\ entries[n].result \in {"WON", "LOST", "REFUNDED"}
  <2>. SUFFICES ASSUME NEW n \in C
                PROVE  entries[n].status = "SETTLED" /\ entries[n].result \in {"WON", "LOST", "REFUNDED"}
    OBVIOUS
  <2>1. IsOutcome(entries[n], RoundAt(all, entries[n].epoch))
    BY LedgerTyped
  <2>. QED  BY <2>1 DEF IsOutcome, TradeResults
<1>5. lost = LostIn(entries, C) /\ won = WonIn(entries, C)
  <2>. HIDE DEF C, realized
  <2>. QED  BY <1>3, <1>4 DEF LostIn, WonIn
<1>6. \A m, n \in DOMAIN entries : m < n <=> entries[m].epoch < entries[n].epoch
  <2>. SUFFICES ASSUME NEW m \in DOMAIN entries, NEW n \in DOMAIN entries
                PROVE  m < n <=> entries[m].epoch < entries[n].epoch
    OBVIOUS
  <2>1. (m < n => entries[m].epoch < entries[n].epoch) /\ (n < m => entries[n].epoch < entries[m].epoch)
        /\ entries[m].epoch \in Nat /\ entries[n].epoch \in Nat
    BY DEF SimInv, IsLedger, IsBet
  <2>2. m \in Int /\ n \in Int
    BY <1>2
  <2>. QED  BY <2>1, <2>2
<1>7. after = Unrecovered(WonIn(entries, C), LostIn(entries, C))
  <2>1. WonIn(entries, C) \subseteq DOMAIN entries /\ LostIn(entries, C) \subseteq DOMAIN entries
    BY <1>2 DEF WonIn, LostIn
  <2>. HIDE DEF C, lost, won
  <2>. QED  BY <1>5, <1>6, <2>1 DEF Unrecovered
<1>8. stats.lastLossEpoch = IF LostIn(entries, C) = {} THEN Null ELSE entries[Max(LostIn(entries, C))].epoch
  <2>. DEFINE L == LostIn(entries, C)
              epochs == [n \in DOMAIN entries |-> entries[n].epoch]
  <2>1. L \in SUBSET DOMAIN entries
    BY <1>2 DEF LostIn
  <2>2. L = lost
    BY <1>5
  <2>. HIDE DEF L
  <2>3. IsFiniteSet(L) /\ L \in SUBSET Int
    BY <1>2, <2>1, FS_Subset
  <2>4. CASE L = {}
    BY <2>2, <2>4, <1>1 DEF L
  <2>5. CASE L # {}
    <3>1. \A n \in L : epochs[n] = entries[n].epoch /\ entries[n].epoch \in Int
      BY <2>1 DEF SimInv, IsLedger, IsBet
    <3>2. \A m, n \in L : m < n => epochs[m] < epochs[n]
      BY <1>6, <2>1
    <3>3. {epochs[n] : n \in L} = {entries[n].epoch : n \in L}
      BY <3>1
    <3>4. Max(L) \in L
      BY <2>3, <2>5, MaxIs
    <3>. HIDE DEF epochs
    <3>5. \A n \in L : epochs[n] \in Int
      BY <3>1
    <3>6. Max({epochs[n] : n \in L}) = epochs[Max(L)]
      BY <2>3, <2>5, <3>2, <3>5, LatestIs
    <3>7. stats.lastLossEpoch = Max({entries[n].epoch : n \in L})
      <4>. HIDE DEF lost, stats
      <4>. QED  BY <1>1, <2>2, <2>5
    <3>8. epochs[Max(L)] = entries[Max(L)].epoch
      BY <3>1, <3>4
    <3>9. stats.lastLossEpoch = entries[Max(L)].epoch
      BY <3>3, <3>6, <3>7, <3>8
    <3>. QED  BY <2>5, <3>9 DEF L
  <2>. QED  BY <2>4, <2>5
<1>9. today \in 0 .. LastDay
      /\ \A n \in C : utcDay(entries[n].settledAt) \in Nat /\ utcDay(entries[n].settledAt) <= today
  BY LastClosingIs
<1>10. then = ClosedOn(entries, today)
  <2>1. \A n \in C : RealizedAt(entries[n]) = entries[n].settledAt
    BY <1>4 DEF RealizedAt
  <2>2. today \in Int
    <3>. HIDE DEF today
    <3>. QED  BY <1>9
  <2>3. ClosedOn(entries, today) = {n \in C : utcDay(entries[n].settledAt) = today}
    BY DEF ClosedOn, OnDay
  <2>. HIDE DEF C, today, realized
  <2>4. \A n \in C : utcDay(RealizedAt(entries[n])) >= today <=> utcDay(entries[n].settledAt) = today
    <3>. SUFFICES ASSUME NEW n \in C
                  PROVE  utcDay(RealizedAt(entries[n])) >= today <=> utcDay(entries[n].settledAt) = today
      OBVIOUS
    <3>. DEFINE d == utcDay(entries[n].settledAt)
    <3>1. utcDay(RealizedAt(entries[n])) = d
      BY <2>1
    <3>2. d \in Nat /\ d <= today
      BY <1>9
    <3>. HIDE DEF d
    <3>3. d >= today <=> d = today
      BY <2>2, <3>2
    <3>. QED  BY <3>1, <3>3 DEF d
  <2>. QED  BY <1>3, <2>3, <2>4
<1>11. /\ sim.netPnl = Sum(nets, C) /\ sim.daily[today] = Sum(nets, ClosedOn(entries, today))
       /\ sim.lossStreak = Cardinality(Unrecovered(WonIn(entries, C), LostIn(entries, C)))
       /\ sim.lastLoss = IF LostIn(entries, C) = {} THEN Null ELSE entries[Max(LostIn(entries, C))].epoch
  <2>. HIDE DEF today
  <2>. QED  BY <1>9, Zenon DEF CountersAgree
<1>. HIDE DEF stats, after, then, mine, lost, nets, C, today
<1>. QED  BY <1>1, <1>3, <1>7, <1>8, <1>10, <1>11 DEF stats, today

\* The running counters of a simulation are what its ledger says, for every course of the rounds: paper
\* and live, which read the ledger, judge a strategy as the backtest did; and its cash, what is at risk
\* and the gas of the bets at risk are what it started with and won (settle, step, ledgerStats).
THEOREM CountersAreTheLedgers == Spec => []JudgedAlike
<1>1. ReplayInv => JudgedAlike
  <2>. SUFFICES ASSUME ReplayInv, NEW k \in Keys
                PROVE  LET sim == sims[k]
                           stats == ledgerStats(sim.entries, DOMAIN sim.entries, LastClosing(sim))
                       IN  /\ stats.strategyNet = sim.netPnl /\ stats.dailyNet = sim.daily[LastClosing(sim)]
                           /\ stats.lossStreak = sim.lossStreak /\ stats.lastLossEpoch = sim.lastLoss
                           /\ Balanced(sim)
    BY Zenon DEF JudgedAlike, LastClosing
  <2>1. /\ IsRounds(market, rounds) /\ SimInv(market, sims[k], rounds) /\ CountersAgree(sims[k]) /\ Balanced(sims[k])
        /\ \A n \in DOMAIN sims[k].entries : sims[k].entries[n].epoch <= MaxRounds
    BY DEF ReplayInv, AllKept, Kept, BaseInv, RoundsInv
  <2>. QED  BY <2>1, LedgerSays
<1>. QED  BY <1>1, ReplayAlways, PTL

\* The sections of the replay's state are what they are taken for; nothing negative is ever at risk.
THEOREM TypeCorrect == Spec => []TypeOK
<1>1. Init => finished \in BOOLEAN
  BY DEF Init
<1>2. finished \in BOOLEAN /\ [Next]_vars => (finished \in BOOLEAN)'
  BY DEF Next, Step, Finish, vars
<1>3. ReplayInv /\ finished \in BOOLEAN => TypeOK
  <2>. SUFFICES ASSUME ReplayInv, finished \in BOOLEAN PROVE TypeOK
    OBVIOUS
  <2>1. IsRounds(market, rounds) /\ market \in Formats
    BY DEF ReplayInv, BaseInv, RoundsInv
  <2>2. \A n \in DOMAIN rounds : rounds[n].outcome \in Outcomes
    BY <2>1 DEF IsRounds, IsRound
  <2>3. ASSUME NEW k \in Keys
        PROVE  /\ sims[k].cash \in Int /\ sims[k].exposure \in Nat /\ sims[k].lossStreak \in Nat
               /\ sims[k].daily \in [0 .. LastDay -> Int]
               /\ \A n \in DOMAIN sims[k].entries : sims[k].entries[n].epoch <= Last(rounds).epoch
    <3>. DEFINE sim == sims[k]
    <3>1. SimInv(market, sim, rounds) /\ Balanced(sim)
      BY DEF ReplayInv, AllKept, Kept
    <3>2. sim.cash \in Int /\ sim.lossStreak \in Nat /\ sim.daily \in [0 .. LastDay -> Int]
      BY <3>1 DEF SimInv, IsAccount
    <3>3. sim.exposure \in Nat
      <4>. DEFINE P == Pending(sim)
      <4>1. IsFiniteSet(P) /\ \A n \in P : EntryAmounts(sim.entries)[n] \in Nat
        BY <2>1, <3>1, StakesTyped
      <4>. HIDE DEF P
      <4>2. Sum(EntryAmounts(sim.entries), P) \in Nat
        BY <4>1, SumIsNat
      <4>. QED  BY <3>1, <4>2 DEF Balanced, P
    <3>4. ASSUME NEW n \in DOMAIN sim.entries PROVE sim.entries[n].epoch <= Last(rounds).epoch
      <4>1. sim.entries # << >>
        BY <3>1 DEF SimInv, Based, IsSim
      <4>2. /\ \A m \in DOMAIN rounds : rounds[m].epoch <= Last(rounds).epoch
            /\ \E m \in DOMAIN rounds : rounds[m].epoch = sim.entries[n].epoch
        BY <4>1, RoundsOfBets
      <4>. QED  BY <4>2
    <3>. QED  BY <3>2, <3>3, <3>4
  <2>. QED  BY <2>1, <2>2, <2>3 DEF TypeOK
<1>. QED  BY <1>1, <1>2, <1>3, ReplayAlways, PTL DEF Spec

-----------------------------------------------------------------------------
\* What InOrder makes of a set: all its elements, each once.
LEMMA InOrderSorts ==
  ASSUME NEW S, IsFiniteSet(S), NEW R, IsOrder(S, R)
  PROVE  /\ Cardinality(S) \in Nat /\ DOMAIN InOrder(S, R) = 1 .. Cardinality(S)
         /\ \A k \in 1 .. Cardinality(S) : InOrder(S, R)[k] \in S /\ RankBy(S, R, InOrder(S, R)[k]) = k
         /\ \A x \in S : \E k \in 1 .. Cardinality(S) : InOrder(S, R)[k] = x
<1>. DEFINE a == InOrder(S, R)
            n == Cardinality(S)
<1>1. /\ n \in Nat
      /\ \A x \in S : RankBy(S, R, x) \in 1 .. n
      /\ \A x, y \in S : RankBy(S, R, x) <= RankBy(S, R, y) <=> <<x, y>> \in R
      /\ \A k \in 1 .. n : \E x \in S : RankBy(S, R, x) = k
  BY RanksAreDistinct, Zenon
<1>2. DOMAIN a = 1 .. n
  BY DEF InOrder
<1>3. ASSUME NEW k \in 1 .. n
      PROVE  a[k] \in S /\ RankBy(S, R, a[k]) = k
  <2>1. a[k] = CHOOSE x \in S : RankBy(S, R, x) = k
    BY DEF InOrder
  <2>. HIDE DEF a
  <2>. QED  BY <1>1, <2>1
<1>. HIDE DEF a
<1>4. ASSUME NEW x \in S PROVE \E k \in 1 .. n : a[k] = x
  <2>. DEFINE k == RankBy(S, R, x)
  <2>1. k \in 1 .. n
    BY <1>1
  <2>. DEFINE y == a[k]
  <2>2. y \in S /\ RankBy(S, R, y) = k
    BY <1>3, <2>1
  <2>. HIDE DEF y
  <2>3. k <= k
    BY <2>1
  <2>4. <<x, y>> \in R /\ <<y, x>> \in R
    BY <1>1, <2>2, <2>3, Zenon DEF k
  <2>5. x = y
    BY <2>2, <2>4 DEF IsOrder
  <2>. QED  BY <2>1, <2>5 DEF y
<1>. QED  BY <1>1, <1>2, <1>3, <1>4 DEF a, n

-----------------------------------------------------------------------------
\* The correction of the p-values of a study: which tests remain significant.

\* The least of some integers.
LEMMA MinIs ==
  ASSUME NEW S \in SUBSET Int, IsFiniteSet(S), S # {}
  PROVE  Min(S) \in S /\ \A x \in S : Min(S) <= x
<1>. DEFINE a == Ascending(S)
            n == Cardinality(S)
<1>1. n \in Nat /\ \A k \in 1 .. n : a[k] \in S
  BY AscendingSorts
<1>2. \A x \in S : \E k \in 1 .. n : a[k] = x
  BY AscendingSorts
<1>3. \A j, k \in 1 .. n : j < k => a[j] < a[k]
  BY AscendingSorts
<1>. HIDE DEF a, n
<1>4. 1 \in 1 .. n
  <2>1. PICK x : x \in S
    OBVIOUS
  <2>2. PICK k \in 1 .. n : a[k] = x
    BY <1>2, <2>1
  <2>. QED  BY <1>1, <2>2
<1>5. ASSUME NEW x \in S PROVE a[1] <= x
  <2>1. PICK k \in 1 .. n : a[k] = x
    BY <1>2
  <2>2. k = 1 \/ 1 < k
    BY <1>1
  <2>3. 1 < k => a[1] < a[k]
    BY <1>3, <1>4
  <2>4. a[1] \in Int /\ a[k] \in Int
    BY <1>1, <1>4
  <2>. QED  BY <2>1, <2>2, <2>3, <2>4
<1>6. \E x \in S : \A y \in S : x <= y
  BY <1>1, <1>4, <1>5
<1>. QED  BY <1>6 DEF Min

\* The order in which the correction goes through p-values.
ByPValue(ps) ==
  {q \in (DOMAIN ps) \X (DOMAIN ps) : ps[q[1]] < ps[q[2]] \/ (ps[q[1]] = ps[q[2]] /\ q[1] <= q[2])}

\* The places of m p-values number them from 1 to m, the smaller first.
PlacesAre(ps, m) ==
  /\ \A i \in 1 .. m : Place(ps, i) \in 1 .. m
  /\ \A i, j \in 1 .. m : Place(ps, j) <= Place(ps, i) => ps[j] <= ps[i]
  /\ \A i, j \in 1 .. m : Place(ps, j) = Place(ps, i) => j = i
  /\ \A k \in 1 .. m : \E i \in 1 .. m : Place(ps, i) = k
  /\ \A k \in 1 .. m : Cardinality({i \in 1 .. m : Place(ps, i) <= k}) = k

LEMMA PlacesAreDistinct ==
  ASSUME NEW m \in Nat, NEW ps \in [1 .. m -> Nat]
  PROVE  PlacesAre(ps, m)
<1>. DEFINE S == 1 .. m
            R == ByPValue(ps)
            place(i) == Place(ps, i)
<1>1. DOMAIN ps = S /\ \A i \in S : ps[i] \in Nat /\ i \in Nat
  OBVIOUS
<1>2. IsOrder(S, R)
  <2>1. \A i, j \in S : <<i, j>> \in R <=> ps[i] < ps[j] \/ (ps[i] = ps[j] /\ i <= j)
    BY <1>1 DEF ByPValue
  <2>. HIDE DEF R, S
  <2>2. ASSUME NEW i \in S, NEW j \in S
        PROVE  /\ <<i, j>> \in R \/ <<j, i>> \in R
               /\ <<i, j>> \in R /\ <<j, i>> \in R => i = j
    <3>. DEFINE a == ps[i] b == ps[j]
    <3>1. a \in Nat /\ b \in Nat /\ i \in Nat /\ j \in Nat
      BY <1>1
    <3>2. /\ <<i, j>> \in R <=> a < b \/ (a = b /\ i <= j)
          /\ <<j, i>> \in R <=> b < a \/ (b = a /\ j <= i)
      BY <2>1
    <3>. HIDE DEF a, b
    <3>. QED  BY <3>1, <3>2
  <2>3. ASSUME NEW i \in S, NEW j \in S, NEW k \in S, <<i, j>> \in R, <<j, k>> \in R
        PROVE  <<i, k>> \in R
    <3>. DEFINE a == ps[i] b == ps[j] c == ps[k]
    <3>1. a \in Nat /\ b \in Nat /\ c \in Nat /\ i \in Nat /\ j \in Nat /\ k \in Nat
      BY <1>1
    <3>2. /\ a < b \/ (a = b /\ i <= j)
          /\ b < c \/ (b = c /\ j <= k)
          /\ <<i, k>> \in R <=> a < c \/ (a = c /\ i <= k)
      BY <2>1, <2>3
    <3>. HIDE DEF a, b, c
    <3>. QED  BY <3>1, <3>2
  <2>. QED  BY <2>2, <2>3, Zenon DEF IsOrder
<1>3. IsFiniteSet(S) /\ Cardinality(S) = m
  BY FS_Interval
<1>4. \A i \in S : Place(ps, i) = RankBy(S, R, i)
  <2>1. ASSUME NEW i \in S
        PROVE  {j \in DOMAIN ps : ps[j] < ps[i] \/ (ps[j] = ps[i] /\ j <= i)} = {j \in S : <<j, i>> \in R}
    BY <1>1 DEF ByPValue
  <2>. QED  BY <2>1 DEF Place, RankBy
<1>5. \A i, j \in S : <<j, i>> \in R => ps[j] <= ps[i]
  BY <1>1 DEF ByPValue
<1>. HIDE DEF R
<1>. HIDE DEF S
<1>6. /\ Cardinality(S) \in Nat
      /\ \A x \in S : RankBy(S, R, x) \in 1 .. Cardinality(S)
      /\ \A x, y \in S : RankBy(S, R, x) <= RankBy(S, R, y) <=> <<x, y>> \in R
      /\ \A k \in 1 .. Cardinality(S) : \E x \in S : RankBy(S, R, x) = k
  BY <1>2, <1>3, RanksAreDistinct, Zenon
<1>7. /\ \A i \in S : Place(ps, i) \in 1 .. m
      /\ \A i, j \in S : Place(ps, j) <= Place(ps, i) <=> <<j, i>> \in R
      /\ \A k \in 1 .. m : \E i \in S : Place(ps, i) = k
  <2>1. ASSUME NEW i \in S, NEW j \in S
        PROVE  Place(ps, j) <= Place(ps, i) <=> <<j, i>> \in R
    <3>1. Place(ps, j) = RankBy(S, R, j) /\ Place(ps, i) = RankBy(S, R, i)
      BY <1>4
    <3>. QED  BY <3>1, <1>6, Zenon
  <2>2. \A i \in S : Place(ps, i) \in 1 .. m
    BY <1>3, <1>4, <1>6, Zenon
  <2>3. \A k \in 1 .. m : \E i \in S : Place(ps, i) = k
    BY <1>3, <1>4, <1>6, Zenon
  <2>. QED  BY <2>1, <2>2, <2>3, Zenon
<1>8. \A i, j \in S : Place(ps, j) = Place(ps, i) => j = i
  <2>. SUFFICES ASSUME NEW i \in S, NEW j \in S, Place(ps, j) = Place(ps, i)
                PROVE  j = i
    OBVIOUS
  <2>1. Place(ps, i) \in Int
    BY <1>7
  <2>2. Place(ps, j) <= Place(ps, i) /\ Place(ps, i) <= Place(ps, j)
    BY <2>1
  <2>3. <<j, i>> \in R /\ <<i, j>> \in R
    BY <2>2, <1>7, Zenon
  <2>. QED  BY <2>3, <1>2 DEF IsOrder
<1>9. ASSUME NEW k \in 1 .. m
      PROVE  Cardinality({i \in S : Place(ps, i) <= k}) = k
  <2>1. PICK x \in S : Place(ps, x) = k
    BY <1>7
  <2>2. {i \in S : Place(ps, i) <= k} = {i \in S : <<i, x>> \in R}
    <3>1. \A i \in S : Place(ps, i) <= k <=> <<i, x>> \in R
      BY <1>7, <2>1, Zenon
    <3>. QED  BY <3>1, Zenon
  <2>3. Cardinality({i \in S : <<i, x>> \in R}) = k
    BY <2>1, <1>4, Zenon DEF RankBy
  <2>. QED  BY <2>2, <2>3, Zenon
<1>10. \A i, j \in S : Place(ps, j) <= Place(ps, i) => ps[j] <= ps[i]
  BY <1>7, <1>5, Zenon
<1>. QED  BY <1>7, <1>8, <1>9, <1>10, Zenon DEF PlacesAre, S

\* A quotient, rounded down, is below a whole number if the fraction is.
LEMMA DivBelow ==
  ASSUME NEW a \in Nat, NEW k \in Nat \ {0}, NEW b \in Nat
  PROVE  (100 * a) \div k < 100 * b <=> a < b * k
<1>. DEFINE q == (100 * a) \div k
            r == (100 * a) % k
            bk == b * k
            qk == q * k
<1>1. q \in Nat /\ r \in Nat /\ r < k /\ 100 * a = qk + r
  OBVIOUS
<1>2. bk \in Nat /\ qk \in Nat
  BY <1>1
<1>. DEFINE c == 100 * b
            ck == c * k
<1>3. c \in Nat /\ ck = 100 * bk
  OBVIOUS
<1>. HIDE DEF q, r
<1>4. q < c => qk + k <= ck
  <2>1. ASSUME q < c PROVE (q + 1) * k <= c * k
    <3>1. q + 1 <= c
      BY <1>1, <1>3, <2>1
    <3>. QED  BY <3>1, <1>1, <1>3
  <2>2. (q + 1) * k = qk + k
    BY <1>1
  <2>. QED  BY <2>1, <2>2
<1>5. ~(q < c) => ck <= qk
  BY <1>1, <1>3
<1>. HIDE DEF bk, qk, c, ck
<1>6. q < c <=> a < bk
  BY <1>1, <1>2, <1>3, <1>4, <1>5
<1>. QED  BY <1>6 DEF q, c, bk

\* A rank's adjusted value is significant if some rank from it on is at its own level.
LEMMA AdjustedBelow ==
  ASSUME NEW m \in Nat, NEW s \in [1 .. m -> Nat], NEW n \in 1 .. m, NEW alpha \in 1 .. 100
  PROVE  Adjusted(s, n, m) < 100 * alpha <=> \E k \in n .. m : s[k] * m < alpha * k
<1>. DEFINE v(k) == (100 * s[k] * m) \div k
            V == {v(k) : k \in n .. m}
            S == {100 * 100} \cup V
<1>1. ASSUME NEW k \in n .. m
      PROVE  v(k) \in Nat /\ (v(k) < 100 * alpha <=> s[k] * m < alpha * k)
  <2>1. s[k] * m \in Nat /\ k \in Nat \ {0} /\ 100 * s[k] * m = 100 * (s[k] * m)
    OBVIOUS
  <2>. DEFINE a == s[k] * m
  <2>2. a \in Nat /\ v(k) = (100 * a) \div k
    BY <2>1
  <2>3. a < alpha * k <=> (100 * a) \div k < 100 * alpha
    <3>1. alpha \in Nat
      OBVIOUS
    <3>. HIDE DEF a
    <3>. QED  BY <2>1, <2>2, <3>1, DivBelow, Zenon
  <2>4. (100 * a) \div k \in Nat
    <3>. HIDE DEF a
    <3>1. 100 * a \in Nat
      BY <2>2
    <3>. DEFINE c == 100 * a
    <3>. HIDE DEF c
    <3>2. c \div k \in Nat
      BY <2>1, <3>1 DEF c
    <3>. QED  BY <3>2 DEF c
  <2>. QED  BY <2>2, <2>3, <2>4
<1>. DEFINE g == [k \in n .. m |-> v(k)]
<1>2. IsFiniteSet(V)
  <2>1. IsFiniteSet(n .. m)
    BY FS_Interval
  <2>2. IsFiniteSet({g[k] : k \in n .. m})
    <3>. HIDE DEF g
    <3>. QED  BY <2>1, ImageIsFinite
  <2>3. {g[k] : k \in n .. m} = V
    <3>1. \A k \in n .. m : g[k] = v(k)
      OBVIOUS
    <3>. HIDE DEF g, v
    <3>. QED  BY <3>1
  <2>. QED  BY <2>2, <2>3
<1>3. V \in SUBSET Int
  <2>. HIDE DEF v
  <2>. QED  BY <1>1
<1>4. Adjusted(s, n, m) = Min(S)
  BY DEF Adjusted
<1>5. S \in SUBSET Int /\ S # {} /\ IsFiniteSet(S) /\ 100 * 100 \in S
  <2>. HIDE DEF V
  <2>1. IsFiniteSet({100 * 100})
    BY FS_Singleton
  <2>2. IsFiniteSet(S)
    BY <1>2, <2>1, FS_Union, Zenon
  <2>3. S \in SUBSET Int /\ 100 * 100 \in S
    BY <1>3
  <2>. QED  BY <2>2, <2>3
<1>6. Min(S) \in S /\ \A x \in S : Min(S) <= x
  <2>. HIDE DEF S
  <2>. QED  BY <1>5, MinIs
<1>. DEFINE low == Min(S)
<1>7. low \in Int /\ low \in S /\ \A x \in S : low <= x
  BY <1>5, <1>6
<1>. HIDE DEF low
<1>8. ASSUME low < 100 * alpha PROVE \E k \in n .. m : s[k] * m < alpha * k
  <2>1. low # 100 * 100
    BY <1>7, <1>8
  <2>. HIDE DEF v
  <2>2. PICK k \in n .. m : low = v(k)
    BY <1>7, <2>1
  <2>. QED  BY <1>1, <1>8, <2>2
<1>9. ASSUME NEW k \in n .. m, s[k] * m < alpha * k PROVE low < 100 * alpha
  <2>. HIDE DEF v
  <2>1. v(k) \in S
    OBVIOUS
  <2>2. v(k) \in Int /\ v(k) < 100 * alpha /\ low <= v(k)
    BY <1>1, <1>7, <1>9, <2>1
  <2>. QED  BY <1>7, <2>2
<1>. QED  BY <1>4, <1>8, <1>9 DEF low

\* The tests in a set of tests each significant at the level of the set, of m tests.
InSet(ps, m, alpha, i) ==
  \E set \in SUBSET (1 .. m) : i \in set /\ \A j \in set : ps[j] * m < alpha * Cardinality(set)

\* The correction leaves exactly the tests in such a set: up to the last rank at its own level.
LEMMA SurvivorsAre ==
  ASSUME NEW m \in Nat, NEW ps \in [1 .. m -> Nat], NEW alpha \in 1 .. 100
  PROVE  Survivors(ps, alpha) = {i \in 1 .. m : InSet(ps, m, alpha, i)}
<1>. DEFINE sorted == [n \in DOMAIN ps |-> ps[CHOOSE i \in DOMAIN ps : Place(ps, i) = n]]
            place(i) == Place(ps, i)
<1>1. DOMAIN ps = 1 .. m /\ Len(ps) = m
  OBVIOUS
<1>2. PlacesAre(ps, m)
  BY PlacesAreDistinct
<1>3. \A i \in 1 .. m : place(i) \in 1 .. m
  BY <1>2 DEF PlacesAre
<1>4. \A i, j \in 1 .. m : place(j) <= place(i) => ps[j] <= ps[i]
  BY <1>2 DEF PlacesAre
<1>5. \A i, j \in 1 .. m : place(j) = place(i) => j = i
  BY <1>2 DEF PlacesAre
<1>6. \A k \in 1 .. m : \E i \in 1 .. m : place(i) = k
  BY <1>2 DEF PlacesAre
<1>7. \A k \in 1 .. m : Cardinality({i \in 1 .. m : place(i) <= k}) = k
  BY <1>2 DEF PlacesAre
<1>8. ASSUME NEW i \in 1 .. m PROVE sorted[place(i)] = ps[i]
  <2>. HIDE DEF place
  <2>1. sorted[place(i)] = ps[CHOOSE j \in 1 .. m : Place(ps, j) = place(i)]
    BY <1>1, <1>3
  <2>2. (CHOOSE j \in 1 .. m : Place(ps, j) = place(i)) = i
    BY <1>5 DEF place
  <2>. QED  BY <2>1, <2>2
<1>9. \A k \in 1 .. m : sorted[k] \in Nat
  <2>1. ASSUME NEW k \in 1 .. m PROVE sorted[k] \in Nat
    <3>1. PICK i \in 1 .. m : place(i) = k
      BY <1>6
    <3>. HIDE DEF sorted, place
    <3>. QED  BY <3>1, <1>8
  <2>. QED  BY <2>1
<1>10. sorted \in [1 .. m -> Nat]
  <2>1. DOMAIN sorted = 1 .. m /\ sorted = [n \in DOMAIN sorted |-> sorted[n]]
    BY <1>1
  <2>. HIDE DEF sorted
  <2>. QED  BY <1>9, <2>1
<1>11. Survivors(ps, alpha) = {i \in 1 .. m : Adjusted(sorted, place(i), m) < 100 * alpha}
  BY <1>1 DEF Survivors, benjaminiHochberg
<1>. HIDE DEF sorted, place
<1>12. \A i \in 1 .. m : Adjusted(sorted, place(i), m) < 100 * alpha
                           <=> \E k \in place(i) .. m : sorted[k] * m < alpha * k
  BY <1>3, <1>10, AdjustedBelow
<1>13. ASSUME NEW i \in 1 .. m, NEW k \in place(i) .. m, sorted[k] * m < alpha * k
       PROVE  InSet(ps, m, alpha, i)
  <2>. DEFINE set == {j \in 1 .. m : place(j) <= k}
  <2>1. k \in 1 .. m /\ place(i) <= k
    BY <1>3
  <2>2. i \in set /\ set \in SUBSET (1 .. m) /\ Cardinality(set) = k
    BY <1>7, <2>1
  <2>3. PICK x \in 1 .. m : place(x) = k
    BY <1>6, <2>1
  <2>4. sorted[k] = ps[x]
    BY <1>8, <2>3
  <2>5. ASSUME NEW j \in set PROVE ps[j] * m < alpha * k
    <3>1. ps[j] <= ps[x] /\ ps[j] \in Nat /\ ps[x] \in Nat
      BY <1>4, <2>3
    <3>2. ps[j] * m <= ps[x] * m
      <4>. DEFINE u == ps[j] v == ps[x]
      <4>1. u \in Nat /\ v \in Nat /\ u <= v
        BY <3>1
      <4>. HIDE DEF u, v
      <4>2. u * m <= v * m
        BY <4>1
      <4>. QED  BY <4>2 DEF u, v
    <3>3. ps[j] * m \in Nat /\ ps[x] * m \in Nat /\ alpha * k \in Nat
      BY <3>1, <2>1
    <3>. DEFINE a == ps[j] * m b == ps[x] * m c == alpha * k
    <3>4. a \in Nat /\ b \in Nat /\ c \in Nat /\ a <= b /\ b < c
      BY <1>13, <2>4, <3>2, <3>3
    <3>. HIDE DEF a, b, c
    <3>5. a < c
      BY <3>4
    <3>. QED  BY <3>5 DEF a, c
  <2>. HIDE DEF set
  <2>6. \A j \in set : ps[j] * m < alpha * Cardinality(set)
    BY <2>2, <2>5
  <2>. QED  BY <2>2, <2>6, Zenon DEF InSet
<1>14. ASSUME NEW i \in 1 .. m, InSet(ps, m, alpha, i)
       PROVE  \E k \in place(i) .. m : sorted[k] * m < alpha * k
  <2>1. PICK set \in SUBSET (1 .. m) : i \in set /\ \A j \in set : ps[j] * m < alpha * Cardinality(set)
    BY <1>14 DEF InSet
  <2>. DEFINE P == {place(j) : j \in set}
              g == [j \in 1 .. m |-> place(j)]
              top == Max(P)
  <2>2. IsFiniteSet(set) /\ IsFiniteSet(1 .. m)
    <3>1. IsFiniteSet(1 .. m)
      BY FS_Interval
    <3>2. IsFiniteSet(set)
      BY <3>1, FS_Subset
    <3>. QED  BY <3>1, <3>2
  <2>3. IsFiniteSet(P)
    <3>1. IsFiniteSet({g[j] : j \in set})
      <4>. HIDE DEF g
      <4>. QED  BY <2>2, ImageIsFinite
    <3>2. \A j \in set : g[j] = place(j)
      OBVIOUS
    <3>3. {g[j] : j \in set} = P
      <4>. HIDE DEF g
      <4>. QED  BY <3>2
    <3>. QED  BY <3>1, <3>3
  <2>4. P \in SUBSET Int /\ P # {}
    <3>1. \A j \in set : place(j) \in Int
      BY <1>3
    <3>. QED  BY <2>1, <3>1
  <2>5. top \in P /\ \A x \in P : x <= top
    <3>. HIDE DEF P
    <3>. QED  BY <2>3, <2>4, MaxIs
  <2>. HIDE DEF top
  <2>6. PICK x \in set : place(x) = top
    BY <2>5
  <2>7. top \in 1 .. m /\ place(i) <= top /\ place(i) \in 1 .. m
    BY <1>3, <2>1, <2>5, <2>6
  <2>. DEFINE upto == {j \in 1 .. m : place(j) <= top}
  <2>8. Cardinality(upto) = top /\ IsFiniteSet(upto) /\ set \in SUBSET upto
    <3>1. Cardinality(upto) = top
      BY <1>7, <2>7
    <3>2. IsFiniteSet(upto)
      BY <2>2, FS_Subset
    <3>3. set \in SUBSET upto
      BY <2>1, <2>5
    <3>. QED  BY <3>1, <3>2, <3>3
  <2>. DEFINE size == Cardinality(set)
  <2>9. size \in Nat /\ size <= top
    <3>. HIDE DEF upto
    <3>. QED  BY <2>8, FS_Subset, FS_CardinalityType
  <2>10. sorted[top] = ps[x] /\ ps[x] \in Nat
    BY <1>8, <2>1, <2>6
  <2>11. ps[x] * m < alpha * size
    BY <2>1, <2>6
  <2>. HIDE DEF size
  <2>12. alpha * size <= alpha * top /\ alpha * size \in Nat /\ alpha * top \in Nat
    BY <2>7, <2>9
  <2>13. ps[x] * m \in Nat
    BY <2>10
  <2>. DEFINE a == ps[x] * m b == alpha * size c == alpha * top
  <2>14. a < c
    <3>1. a \in Nat /\ b \in Nat /\ c \in Nat /\ a < b /\ b <= c
      BY <2>11, <2>12, <2>13
    <3>. HIDE DEF a, b, c
    <3>. QED  BY <3>1
  <2>15. top \in place(i) .. m
    BY <2>7
  <2>. QED  BY <2>10, <2>14, <2>15
<1>15. \A i \in 1 .. m : Adjusted(sorted, place(i), m) < 100 * alpha <=> InSet(ps, m, alpha, i)
  BY <1>12, <1>13, <1>14
<1>. QED  BY <1>11, <1>15, Zenon

\* f names the elements of T by those of U, one by one.
Names(f, T, U) ==
  /\ \A x \in T : f[x] \in U
  /\ \A x, y \in T : f[x] = f[y] => x = y
  /\ \A u \in U : \E x \in T : f[x] = u

\* A set has as many elements as names.
LEMMA NamesAreAsMany ==
  ASSUME NEW T, IsFiniteSet(T), NEW U, NEW f, Names(f, T, U)
  PROVE  IsFiniteSet(U) /\ Cardinality(U) = Cardinality(T)
<1>. DEFINE g == [x \in T |-> f[x]]
<1>1. g \in [T -> U] /\ \A x \in T : g[x] = f[x]
  BY DEF Names
<1>. HIDE DEF g
<1>2. g \in Injection(T, U)
  BY <1>1 DEF Names, Injection, IsInjective
<1>3. g \in Surjection(T, U)
  BY <1>1 DEF Names, Surjection
<1>. QED  BY <1>2, <1>3, FS_Surjection

\* Which tests are in a significant set does not depend on what they are called.
LEMMA SignificantByName ==
  ASSUME NEW T, IsFiniteSet(T), NEW U, NEW f, Names(f, T, U),
         NEW p, NEW q, \A x \in T : p[x] = q[f[x]], NEW alpha
  PROVE  \A x \in T : x \in InSignificantSet(p, T, alpha) <=> f[x] \in InSignificantSet(q, U, alpha)
<1>. DEFINE Fits(set) == \A y \in set : p[y] * Cardinality(T) < alpha * Cardinality(set)
            FitsNamed(set) == \A u \in set : q[u] * Cardinality(U) < alpha * Cardinality(set)
            image(set) == {f[y] : y \in set}
<1>1. Cardinality(U) = Cardinality(T)
  BY NamesAreAsMany
<1>2. ASSUME NEW set \in SUBSET T
      PROVE  Cardinality(image(set)) = Cardinality(set) /\ image(set) \in SUBSET U
  <2>1. IsFiniteSet(set)
    BY FS_Subset
  <2>2. Names(f, set, image(set)) /\ image(set) \in SUBSET U
    BY DEF Names
  <2>. HIDE DEF image
  <2>. QED  BY <2>1, <2>2, NamesAreAsMany
<1>3. ASSUME NEW set \in SUBSET T
      PROVE  Fits(set) <=> FitsNamed(image(set))
  <2>1. Cardinality(image(set)) = Cardinality(set)
    BY <1>2
  <2>. DEFINE n == Cardinality(set) m == Cardinality(T)
  <2>2. FitsNamed(image(set)) <=> \A u \in image(set) : q[u] * m < alpha * n
    <3>. HIDE DEF image
    <3>. QED  BY <1>1, <2>1, Zenon
  <2>3. (\A u \in image(set) : q[u] * m < alpha * n) <=> \A y \in set : q[f[y]] * m < alpha * n
    BY Zenon
  <2>4. \A y \in set : p[y] = q[f[y]]
    OBVIOUS
  <2>. QED  BY <2>2, <2>3, <2>4, Zenon
<1>4. ASSUME NEW x \in T
      PROVE  x \in InSignificantSet(p, T, alpha) <=> \E set \in SUBSET T : x \in set /\ Fits(set)
  BY Zenon DEF InSignificantSet
<1>5. ASSUME NEW u \in U
      PROVE  u \in InSignificantSet(q, U, alpha) <=> \E set \in SUBSET U : u \in set /\ FitsNamed(set)
  BY Zenon DEF InSignificantSet
<1>6. ASSUME NEW x \in T, NEW set \in SUBSET T, x \in set, Fits(set)
      PROVE  f[x] \in InSignificantSet(q, U, alpha)
  <2>1. f[x] \in image(set) /\ f[x] \in U
    BY <1>6 DEF Names
  <2>2. image(set) \in SUBSET U
    BY <1>2
  <2>3. FitsNamed(image(set))
    <3>. HIDE DEF Fits, FitsNamed, image
    <3>. QED  BY <1>3, <1>6
  <2>. HIDE DEF image, FitsNamed
  <2>. QED  BY <1>5, <2>1, <2>2, <2>3
<1>7. ASSUME NEW x \in T, NEW named \in SUBSET U, f[x] \in named, FitsNamed(named)
      PROVE  x \in InSignificantSet(p, T, alpha)
  <2>. DEFINE set == {y \in T : f[y] \in named}
  <2>1. x \in set /\ set \in SUBSET T
    BY <1>7
  <2>2. image(set) = named
    <3>1. ASSUME NEW u \in named PROVE u \in image(set)
      <4>1. PICK y \in T : f[y] = u
        BY DEF Names
      <4>2. y \in set
        BY <4>1
      <4>. QED  BY <4>1, <4>2
    <3>. QED  BY <3>1
  <2>3. Fits(set)
    <3>. HIDE DEF Fits, FitsNamed, image, set
    <3>. QED  BY <1>3, <1>7, <2>1, <2>2
  <2>. HIDE DEF set, Fits
  <2>. QED  BY <1>4, <2>1, <2>3
<1>8. \A x \in T : f[x] \in U
  BY DEF Names
<1>. HIDE DEF Fits, FitsNamed
<1>. QED  BY <1>4, <1>5, <1>6, <1>7, <1>8

\* The survivors among tests that were put in an order.
LEMMA SurvivorsByName ==
  ASSUME NEW m \in Nat, NEW ps \in [1 .. m -> Nat], NEW alpha \in 1 .. 100,
         NEW U, NEW f, Names(f, 1 .. m, U), NEW q, \A k \in 1 .. m : ps[k] = q[f[k]]
  PROVE  \A k \in 1 .. m : k \in Survivors(ps, alpha) <=> f[k] \in InSignificantSet(q, U, alpha)
<1>. DEFINE T == 1 .. m
<1>1. IsFiniteSet(T) /\ Cardinality(T) = m
  BY FS_Interval
<1>2. \A k \in T : k \in Survivors(ps, alpha) <=> k \in InSignificantSet(ps, T, alpha)
  <2>0. Survivors(ps, alpha) = {k \in 1 .. m : InSet(ps, m, alpha, k)}
    BY SurvivorsAre
  <2>1. \A k \in T : k \in Survivors(ps, alpha) <=> InSet(ps, m, alpha, k)
    BY <2>0, Zenon
  <2>2. ASSUME NEW k \in T PROVE InSet(ps, m, alpha, k) <=> k \in InSignificantSet(ps, T, alpha)
    <3>1. Cardinality(T) = m
      BY <1>1
    <3>. QED  BY <3>1, Zenon DEF InSet, InSignificantSet
  <2>. QED  BY <2>1, <2>2, Zenon
<1>3. \A k \in T : k \in InSignificantSet(ps, T, alpha) <=> f[k] \in InSignificantSet(q, U, alpha)
  <2>. HIDE DEF T
  <2>. QED  BY <1>1, SignificantByName DEF T
<1>. QED  BY <1>2, <1>3, Zenon

\* A study's edges are the rules that clear, of the tests in a significant set.
Clearing(clears, roiP, n, alpha) ==
  {i \in InSignificantSet(roiP, {j \in 1 .. n : roiP[j] # Null}, alpha) : clears[i]}

\* The correction of a study is that of its scored rules, in their order.
LEMMA EdgesAre ==
  ASSUME NEW n \in Nat, NEW roiP \in [1 .. n -> Nat \cup {Null}], NEW alpha \in 1 .. 100, NEW clears
  PROVE  Edges(clears, roiP, alpha) = Clearing(clears, roiP, n, alpha)
<1>. DEFINE T == {i \in 1 .. n : roiP[i] # Null}
            scored == Ascending(T)
            m == Cardinality(T)
            ps == [k \in DOMAIN scored |-> roiP[scored[k]]]
<1>1. T \in SUBSET Int /\ IsFiniteSet(T)
  <2>1. IsFiniteSet(1 .. n)
    BY FS_Interval
  <2>. QED  BY <2>1, FS_Subset
<1>2. /\ m \in Nat /\ DOMAIN scored = 1 .. m /\ \A k \in 1 .. m : scored[k] \in T
      /\ \A x \in T : \E k \in 1 .. m : scored[k] = x
      /\ \A j, k \in 1 .. m : j < k <=> scored[j] < scored[k]
  <2>. HIDE DEF T
  <2>1. LET a == Ascending(T) c == Cardinality(T) IN
         /\ c \in Nat /\ a \in [1 .. c -> T] /\ a \in Seq(T) /\ Len(a) = c /\ DOMAIN a = 1 .. c
         /\ \A x \in T : \E k \in 1 .. c : a[k] = x
         /\ \A j, k \in 1 .. c : j < k <=> a[j] < a[k]
    BY <1>1, AscendingSorts
  <2>. QED  BY <2>1
<1>3. DOMAIN roiP = 1 .. n /\ \A i \in T : roiP[i] \in Nat
  OBVIOUS
<1>4. Edges(clears, roiP, alpha) = {scored[k] : k \in {j \in Survivors(ps, alpha) : clears[scored[j]]}}
  BY <1>3, Zenon DEF Edges
<1>5. T \in SUBSET Int
  BY <1>1
<1>. HIDE DEF T, scored, m
<1>6. Names(scored, 1 .. m, T)
  <2>1. ASSUME NEW j \in 1 .. m, NEW k \in 1 .. m, scored[j] = scored[k] PROVE j = k
    <3>1. scored[k] \in Int
      BY <1>2, <1>5
    <3>2. ~(scored[j] < scored[k]) /\ ~(scored[k] < scored[j])
      BY <2>1, <3>1
    <3>3. ~(j < k) /\ ~(k < j)
      BY <1>2, <3>2
    <3>. QED  BY <3>3
  <2>. QED  BY <1>2, <2>1, Zenon DEF Names
<1>7. ps \in [1 .. m -> Nat] /\ \A k \in 1 .. m : ps[k] = roiP[scored[k]]
  BY <1>2, <1>3
<1>. HIDE DEF ps
<1>8. \A k \in 1 .. m : k \in Survivors(ps, alpha) <=> scored[k] \in InSignificantSet(roiP, T, alpha)
  BY <1>2, <1>6, <1>7, SurvivorsByName
<1>9. Survivors(ps, alpha) \subseteq 1 .. m
  BY <1>7 DEF Survivors
<1>10. InSignificantSet(roiP, T, alpha) \subseteq T
  BY DEF InSignificantSet
<1>11. {scored[k] : k \in {j \in Survivors(ps, alpha) : clears[scored[j]]}}
         = {i \in InSignificantSet(roiP, T, alpha) : clears[i]}
  <2>. DEFINE A == Survivors(ps, alpha)
              B == InSignificantSet(roiP, T, alpha)
  <2>. HIDE DEF A, B
  <2>1. A \subseteq 1 .. m /\ B \subseteq T /\ \A k \in 1 .. m : k \in A <=> scored[k] \in B
    BY <1>8, <1>9, <1>10 DEF A, B
  <2>2. ASSUME NEW i \in B, clears[i] PROVE i \in {scored[k] : k \in {j \in A : clears[scored[j]]}}
    <3>1. PICK k \in 1 .. m : scored[k] = i
      BY <1>2, <2>1
    <3>2. k \in A
      BY <2>1, <3>1
    <3>. QED  BY <2>2, <3>1, <3>2
  <2>3. ASSUME NEW k \in A, clears[scored[k]] PROVE scored[k] \in B
    BY <2>1
  <2>4. {scored[k] : k \in {j \in A : clears[scored[j]]}} = {i \in B : clears[i]}
    BY <2>2, <2>3
  <2>. QED  BY <2>4 DEF A, B
<1>. QED  BY <1>4, <1>11, Zenon DEF Clearing, T

\* The tests of two experiments, named by their place among all.
LEMMA TestsAre ==
  ASSUME NEW n \in Nat, NEW roiP \in [1 .. n -> Nat], NEW cut \in 0 .. n
  PROVE  LET experiments == <<SubSeq(roiP, 1, cut), SubSeq(roiP, cut + 1, n)>>
             all == TestsOf(experiments)
             name == [t \in all |-> IF t[1] = 1 THEN t[2] ELSE cut + t[2]]
         IN  /\ all = {<<1, i>> : i \in 1 .. cut} \cup {<<2, i - cut>> : i \in cut + 1 .. n}
             /\ IsFiniteSet(all) /\ IsOrder(all, Earlier(all)) /\ Names(name, all, 1 .. n)
             /\ \A t \in all : experiments[t[1]][t[2]] = roiP[name[t]]
<1>. DEFINE first == SubSeq(roiP, 1, cut)
            second == SubSeq(roiP, cut + 1, n)
            experiments == <<first, second>>
            all == TestsOf(experiments)
            given == {<<1, i>> : i \in 1 .. cut} \cup {<<2, i - cut>> : i \in cut + 1 .. n}
            name == [t \in all |-> IF t[1] = 1 THEN t[2] ELSE cut + t[2]]
<1>1. /\ DOMAIN first = 1 .. cut /\ \A i \in 1 .. cut : first[i] = roiP[i]
      /\ DOMAIN second = 1 .. n - cut /\ \A i \in 1 .. n - cut : second[i] = roiP[cut + i]
  OBVIOUS
<1>. HIDE DEF first, second
<1>2. DOMAIN experiments = {1, 2} /\ experiments[1] = first /\ experiments[2] = second
  OBVIOUS
<1>. HIDE DEF experiments
<1>3. all = {<<1, i>> : i \in 1 .. cut} \cup {<<2, i>> : i \in 1 .. n - cut}
  <2>. DEFINE of(x) == {<<x, i>> : i \in DOMAIN experiments[x]}
  <2>1. of(1) = {<<1, i>> : i \in 1 .. cut} /\ of(2) = {<<2, i>> : i \in 1 .. n - cut}
    BY <1>1, <1>2, Zenon
  <2>2. all = UNION {of(x) : x \in {1, 2}}
    BY <1>2, Zenon DEF TestsOf
  <2>. HIDE DEF of, all
  <2>3. UNION {of(x) : x \in {1, 2}} = of(1) \cup of(2)
    OBVIOUS
  <2>. QED  BY <2>1, <2>2, <2>3, Zenon
<1>4. {<<2, i>> : i \in 1 .. n - cut} = {<<2, i - cut>> : i \in cut + 1 .. n}
  <2>1. ASSUME NEW i \in 1 .. n - cut PROVE cut + i \in cut + 1 .. n /\ (cut + i) - cut = i
    OBVIOUS
  <2>2. ASSUME NEW i \in cut + 1 .. n PROVE i - cut \in 1 .. n - cut
    OBVIOUS
  <2>. QED  BY <2>1, <2>2
<1>5. all = given
  BY <1>3, <1>4
<1>6. \A t \in all : \/ t[1] = 1 /\ t[2] \in 1 .. cut /\ t = <<1, t[2]>>
                     \/ t[1] = 2 /\ t[2] \in 1 .. n - cut /\ t = <<2, t[2]>>
  BY <1>3
<1>7. /\ \A i \in 1 .. cut : <<1, i>> \in all
      /\ \A i \in 1 .. n - cut : <<2, i>> \in all
  BY <1>3
<1>8. \A t \in all : name[t] = IF t[1] = 1 THEN t[2] ELSE cut + t[2]
  OBVIOUS
<1>. HIDE DEF all, name
<1>9. IsOrder(all, Earlier(all))
  <2>. DEFINE R == Earlier(all)
  <2>1. \A s, t \in all : <<s, t>> \in R <=> s[1] < t[1] \/ (s[1] = t[1] /\ s[2] <= t[2])
    BY DEF Earlier
  <2>2. \A t \in all : t[1] \in Int /\ t[2] \in Int /\ t = <<t[1], t[2]>>
    BY <1>6
  <2>. HIDE DEF R
  <2>3. ASSUME NEW s \in all, NEW t \in all
        PROVE  /\ <<s, t>> \in R \/ <<t, s>> \in R
               /\ <<s, t>> \in R /\ <<t, s>> \in R => s = t
    <3>. DEFINE a == s[1] b == s[2] c == t[1] d == t[2]
    <3>1. /\ a \in Int /\ b \in Int /\ c \in Int /\ d \in Int
          /\ <<s, t>> \in R <=> a < c \/ (a = c /\ b <= d)
          /\ <<t, s>> \in R <=> c < a \/ (c = a /\ d <= b)
          /\ s = <<a, b>> /\ t = <<c, d>>
      BY <2>1, <2>2
    <3>. HIDE DEF a, b, c, d
    <3>2. <<s, t>> \in R /\ <<t, s>> \in R => a = c /\ b = d
      BY <3>1
    <3>3. <<s, t>> \in R \/ <<t, s>> \in R
      BY <3>1
    <3>. QED  BY <3>1, <3>2, <3>3, Zenon
  <2>4. ASSUME NEW s \in all, NEW t \in all, NEW u \in all, <<s, t>> \in R, <<t, u>> \in R
        PROVE  <<s, u>> \in R
    <3>. DEFINE a == s[1] b == s[2] c == t[1] d == t[2] e == u[1] f == u[2]
    <3>1. /\ a \in Int /\ b \in Int /\ c \in Int /\ d \in Int /\ e \in Int /\ f \in Int
          /\ a < c \/ (a = c /\ b <= d)
          /\ c < e \/ (c = e /\ d <= f)
          /\ <<s, u>> \in R <=> a < e \/ (a = e /\ b <= f)
      BY <2>1, <2>2, <2>4
    <3>. HIDE DEF a, b, c, d, e, f
    <3>. QED  BY <3>1
  <2>5. IsOrder(all, R)
    BY <2>3, <2>4, Zenon DEF IsOrder
  <2>. QED  BY <2>5 DEF R
<1>10. Names(name, all, 1 .. n)
  <2>1. ASSUME NEW t \in all PROVE name[t] \in 1 .. n
    BY <1>6, <1>8
  <2>2. ASSUME NEW s \in all, NEW t \in all, name[s] = name[t] PROVE s = t
    <3>1. s[1] = t[1] /\ s[2] = t[2]
      BY <1>6, <1>8, <2>2
    <3>. QED  BY <1>6, <3>1
  <2>3. ASSUME NEW u \in 1 .. n PROVE \E t \in all : name[t] = u
    <3>1. CASE u <= cut
      <4>1. <<1, u>> \in all
        BY <1>7, <3>1
      <4>2. name[<<1, u>>] = u
        BY <1>8, <4>1
      <4>. QED  BY <4>1, <4>2
    <3>2. CASE ~(u <= cut)
      <4>. DEFINE i == u - cut
      <4>1. i \in 1 .. n - cut /\ cut + i = u
        BY <3>2
      <4>. HIDE DEF i
      <4>2. <<2, i>> \in all
        BY <1>7, <4>1
      <4>. DEFINE t == <<2, i>>
      <4>3. t \in all /\ t[1] = 2 /\ t[2] = i
        BY <4>2
      <4>. HIDE DEF t
      <4>4. name[t] = cut + t[2]
        BY <1>8, <4>3
      <4>. QED  BY <4>1, <4>3, <4>4
    <3>. QED  BY <3>1, <3>2
  <2>. QED  BY <2>1, <2>2, <2>3, Zenon DEF Names
<1>11. IsFiniteSet(all)
  <2>. DEFINE g == [t \in all |-> name[t]]
  <2>1. g \in [all -> 1 .. n] /\ \A t \in all : g[t] = name[t]
    BY <1>10 DEF Names
  <2>. HIDE DEF g
  <2>2. g \in Injection(all, 1 .. n)
    BY <1>10, <2>1 DEF Names, Injection, IsInjective
  <2>3. IsFiniteSet(1 .. n)
    BY FS_Interval
  <2>. QED  BY <2>2, <2>3, FS_Injection
<1>12. \A t \in all : experiments[t[1]][t[2]] = roiP[name[t]]
  <2>. SUFFICES ASSUME NEW t \in all PROVE experiments[t[1]][t[2]] = roiP[name[t]]
    OBVIOUS
  <2>1. CASE t[1] = 1 /\ t[2] \in 1 .. cut
    <3>1. name[t] = t[2] /\ experiments[t[1]] = first
      BY <1>2, <1>8, <2>1
    <3>. QED  BY <1>1, <2>1, <3>1
  <2>2. CASE t[1] = 2 /\ t[2] \in 1 .. n - cut
    <3>1. name[t] = cut + t[2] /\ experiments[t[1]] = second
      BY <1>2, <1>8, <2>2
    <3>. QED  BY <1>1, <2>2, <3>1
  <2>. QED  BY <1>6, <2>1, <2>2
<1>. QED  BY <1>5, <1>9, <1>10, <1>11, <1>12, Zenon DEF all, name, experiments, first, second

\* The p-values of two experiments, made one after the other.
Parts(roiP, cut, n) == <<SubSeq(roiP, 1, cut), SubSeq(roiP, cut + 1, n)>>

\* Each experiment is shown its own of the tests that are significant among all.
SeenAlike(roiP, cut, n, significant, alpha) ==
  /\ view(Parts(roiP, cut, n), 1, alpha) = {<<1, i>> : i \in significant \cap (1 .. cut)}
  /\ view(Parts(roiP, cut, n), 2, alpha) = {<<2, i - cut>> : i \in significant \ (1 .. cut)}

\* The ledger corrects across experiments as if all their tests had been made in one.
LEMMA ViewsAre ==
  ASSUME NEW n \in Nat, NEW roiP \in [1 .. n -> Nat], NEW cut \in 0 .. n, NEW alpha \in 1 .. 100
  PROVE  SeenAlike(roiP, cut, n, InSignificantSet(roiP, 1 .. n, alpha), alpha)
<1>. DEFINE experiments == <<SubSeq(roiP, 1, cut), SubSeq(roiP, cut + 1, n)>>
            significant == InSignificantSet(roiP, 1 .. n, alpha)
            all == TestsOf(experiments)
            name == [t \in all |-> IF t[1] = 1 THEN t[2] ELSE cut + t[2]]
            tests == InOrder(all, Earlier(all))
            m == Cardinality(all)
            ps == [k \in DOMAIN tests |-> experiments[tests[k][1]][tests[k][2]]]
            f == [k \in 1 .. m |-> name[tests[k]]]
<1>1. /\ all = {<<1, i>> : i \in 1 .. cut} \cup {<<2, i - cut>> : i \in cut + 1 .. n}
      /\ IsFiniteSet(all) /\ IsOrder(all, Earlier(all)) /\ Names(name, all, 1 .. n)
      /\ \A t \in all : experiments[t[1]][t[2]] = roiP[name[t]]
  BY TestsAre, Zenon
<1>2. \A t \in all : name[t] = IF t[1] = 1 THEN t[2] ELSE cut + t[2]
  OBVIOUS
<1>3. ledger(experiments, alpha) = {tests[k] : k \in Survivors(ps, alpha)}
  BY Zenon DEF ledger
<1>. HIDE DEF experiments, all, name
<1>4. /\ m \in Nat /\ DOMAIN tests = 1 .. m /\ \A k \in 1 .. m : tests[k] \in all
      /\ \A t \in all : \E k \in 1 .. m : tests[k] = t
      /\ \A j, k \in 1 .. m : tests[j] = tests[k] => j = k
  <2>1. /\ m \in Nat /\ DOMAIN tests = 1 .. m
        /\ \A k \in 1 .. m : tests[k] \in all /\ RankBy(all, Earlier(all), tests[k]) = k
        /\ \A x \in all : \E k \in 1 .. m : tests[k] = x
    <3>1. IsFiniteSet(all)
      BY <1>1
    <3>2. IsOrder(all, Earlier(all))
      BY <1>1
    <3>. QED  BY <3>1, <3>2, InOrderSorts
  <2>. HIDE DEF tests, m
  <2>2. ASSUME NEW j \in 1 .. m, NEW k \in 1 .. m, tests[j] = tests[k]
        PROVE  j = k
    <3>1. RankBy(all, Earlier(all), tests[j]) = j /\ RankBy(all, Earlier(all), tests[k]) = k
      BY <2>1, Zenon
    <3>. QED  BY <2>2, <3>1, Zenon
  <2>. QED  BY <2>1, <2>2, Zenon
<1>. HIDE DEF tests, m
<1>5. \A k \in 1 .. m : f[k] = name[tests[k]]
  OBVIOUS
<1>6. Names(f, 1 .. m, 1 .. n)
  <2>. HIDE DEF f
  <2>1. ASSUME NEW k \in 1 .. m PROVE f[k] \in 1 .. n
    BY <1>1, <1>4, <1>5 DEF Names
  <2>2. ASSUME NEW j \in 1 .. m, NEW k \in 1 .. m, f[j] = f[k] PROVE j = k
    <3>1. name[tests[j]] = name[tests[k]] /\ tests[j] \in all /\ tests[k] \in all
      BY <1>4, <1>5, <2>2
    <3>2. tests[j] = tests[k]
      BY <1>1, <3>1, Zenon DEF Names
    <3>. QED  BY <1>4, <3>2
  <2>3. ASSUME NEW u \in 1 .. n PROVE \E k \in 1 .. m : f[k] = u
    <3>1. PICK t \in all : name[t] = u
      BY <1>1, Zenon DEF Names
    <3>2. PICK k \in 1 .. m : tests[k] = t
      BY <1>4
    <3>. QED  BY <1>5, <3>1, <3>2
  <2>. QED  BY <2>1, <2>2, <2>3, Zenon DEF Names
<1>7. DOMAIN ps = 1 .. m /\ \A k \in 1 .. m : ps[k] = roiP[f[k]]
  <2>1. DOMAIN ps = 1 .. m /\ \A k \in 1 .. m : ps[k] = experiments[tests[k][1]][tests[k][2]]
    BY <1>4
  <2>. HIDE DEF ps, f
  <2>2. ASSUME NEW k \in 1 .. m PROVE ps[k] = roiP[f[k]]
    <3>1. tests[k] \in all /\ f[k] = name[tests[k]] /\ ps[k] = experiments[tests[k][1]][tests[k][2]]
      BY <1>4, <1>5, <2>1
    <3>2. experiments[tests[k][1]][tests[k][2]] = roiP[name[tests[k]]]
      BY <1>1, <3>1, Zenon
    <3>. QED  BY <3>1, <3>2, Zenon
  <2>. QED  BY <2>1, <2>2
<1>8. ps \in [1 .. m -> Nat]
  <2>1. \A k \in 1 .. m : ps[k] \in Nat
    <3>. HIDE DEF ps, f
    <3>1. \A k \in 1 .. m : f[k] \in 1 .. n
      BY <1>6 DEF Names
    <3>. QED  BY <1>7, <3>1
  <2>2. ps = [k \in DOMAIN ps |-> ps[k]]
    OBVIOUS
  <2>. HIDE DEF ps
  <2>. QED  BY <1>7, <2>1, <2>2
<1>. HIDE DEF ps, f
<1>9. \A k \in 1 .. m : k \in Survivors(ps, alpha) <=> f[k] \in significant
  <2>1. \A k \in 1 .. m : k \in Survivors(ps, alpha) <=> f[k] \in InSignificantSet(roiP, 1 .. n, alpha)
    <3>1. m \in Nat /\ \A k \in 1 .. m : ps[k] = roiP[f[k]]
      BY <1>4, <1>7, Zenon
    <3>. QED  BY <3>1, <1>6, <1>8, SurvivorsByName
  <2>. QED  BY <2>1
<1>10. Survivors(ps, alpha) \subseteq 1 .. m
  BY <1>7 DEF Survivors
<1>11. significant \subseteq 1 .. n
  BY DEF InSignificantSet
<1>12. ledger(experiments, alpha) = {t \in all : name[t] \in significant}
  <2>. DEFINE A == Survivors(ps, alpha)
  <2>. HIDE DEF A, significant
  <2>1. \A k \in 1 .. m : k \in A <=> name[tests[k]] \in significant
    BY <1>5, <1>9 DEF A
  <2>2. A \subseteq 1 .. m
    BY <1>10 DEF A
  <2>3. ASSUME NEW t \in all, name[t] \in significant PROVE t \in {tests[k] : k \in A}
    <3>1. PICK k \in 1 .. m : tests[k] = t
      BY <1>4
    <3>. QED  BY <2>1, <2>3, <3>1
  <2>4. ASSUME NEW k \in A PROVE tests[k] \in all /\ name[tests[k]] \in significant
    BY <1>4, <2>1, <2>2
  <2>5. {tests[k] : k \in A} = {t \in all : name[t] \in significant}
    BY <2>3, <2>4
  <2>. QED  BY <1>3, <2>5 DEF A
<1>. HIDE DEF significant
<1>13. \A t \in all : \/ t[1] = 1 /\ t[2] \in 1 .. cut /\ t = <<1, t[2]>>
                      \/ t[1] = 2 /\ t[2] \in 1 .. n - cut /\ t = <<2, t[2]>>
  <2>1. ASSUME NEW i \in cut + 1 .. n PROVE i - cut \in 1 .. n - cut
    OBVIOUS
  <2>. QED  BY <1>1, <2>1
<1>14. view(experiments, 1, alpha) = {<<1, i>> : i \in significant \cap (1 .. cut)}
  <2>1. view(experiments, 1, alpha) = {t \in all : name[t] \in significant /\ t[1] = 1}
    BY <1>12, Zenon DEF view
  <2>2. ASSUME NEW t \in all, name[t] \in significant, t[1] = 1
        PROVE  t[2] \in significant \cap (1 .. cut) /\ t = <<1, t[2]>>
    BY <1>2, <1>13, <2>2
  <2>3. ASSUME NEW i \in significant \cap (1 .. cut)
        PROVE  <<1, i>> \in all /\ name[<<1, i>>] \in significant
    <3>1. <<1, i>> \in all
      BY <1>1
    <3>2. name[<<1, i>>] = i
      BY <1>2, <3>1
    <3>. QED  BY <3>1, <3>2
  <2>4. \A i : <<1, i>>[1] = 1
    OBVIOUS
  <2>. HIDE DEF view
  <2>. QED  BY <2>1, <2>2, <2>3, <2>4
<1>15. view(experiments, 2, alpha) = {<<2, i - cut>> : i \in significant \ (1 .. cut)}
  <2>1. view(experiments, 2, alpha) = {t \in all : name[t] \in significant /\ t[1] = 2}
    BY <1>12, Zenon DEF view
  <2>2. ASSUME NEW t \in all, name[t] \in significant, t[1] = 2
        PROVE  \E i \in significant \ (1 .. cut) : t = <<2, i - cut>>
    <3>1. t[2] \in 1 .. n - cut /\ t = <<2, t[2]>> /\ name[t] = cut + t[2]
      BY <1>2, <1>13, <2>2
    <3>. DEFINE j == t[2]
    <3>. HIDE DEF j
    <3>2. j \in 1 .. n - cut /\ cut + j \in significant /\ t = <<2, j>>
      BY <2>2, <3>1 DEF j
    <3>3. cut + j \notin 1 .. cut /\ (cut + j) - cut = j
      BY <3>2
    <3>. QED  BY <3>2, <3>3
  <2>3. ASSUME NEW i \in significant \ (1 .. cut)
        PROVE  <<2, i - cut>> \in all /\ name[<<2, i - cut>>] \in significant
    <3>1. i \in cut + 1 .. n
      BY <1>11
    <3>2. <<2, i - cut>> \in all
      BY <1>1, <3>1
    <3>3. name[<<2, i - cut>>] = cut + (i - cut) /\ cut + (i - cut) = i
      BY <1>2, <3>1, <3>2
    <3>. QED  BY <3>2, <3>3
  <2>4. \A i : <<2, i - cut>>[1] = 2
    OBVIOUS
  <2>. HIDE DEF view
  <2>. QED  BY <2>1, <2>2, <2>3, <2>4
<1>. QED  BY <1>14, <1>15, Zenon DEF SeenAlike, Parts, experiments, significant

\* What Corrected says of n tests.
LEMMA CorrectedAlways ==
  ASSUME NEW n \in 1 .. MaxTests
  PROVE  Corrected[n]
<1>1. Corrected[n] <=>
        \A alpha \in {1, 5}, roiP \in [1 .. n -> PValues \cup {Null}] :
          LET scored == {i \in 1 .. n : roiP[i] # Null}
              significant == InSignificantSet(roiP, scored, alpha)
          IN  /\ \A clears \in [1 .. n -> BOOLEAN] :
                   Edges(clears, roiP, alpha) = {i \in significant : clears[i]}
              /\ scored = 1 .. n =>
                   \A cut \in 0 .. n :
                     LET experiments == <<SubSeq(roiP, 1, cut), SubSeq(roiP, cut + 1, n)>>
                     IN  /\ view(experiments, 1, alpha) = {<<1, i>> : i \in significant \cap (1 .. cut)}
                         /\ view(experiments, 2, alpha) = {<<2, i - cut>> : i \in significant \ (1 .. cut)}
  BY Zenon DEF Corrected
<1>2. Corrected[n] <=>
        \A alpha \in {1, 5}, roiP \in [1 .. n -> PValues \cup {Null}] :
          /\ \A clears \in [1 .. n -> BOOLEAN] :
               Edges(clears, roiP, alpha) = Clearing(clears, roiP, n, alpha)
          /\ {j \in 1 .. n : roiP[j] # Null} = 1 .. n =>
               \A cut \in 0 .. n :
                 SeenAlike(roiP, cut, n, InSignificantSet(roiP, {j \in 1 .. n : roiP[j] # Null}, alpha), alpha)
  BY <1>1, Zenon DEF Clearing, SeenAlike, Parts
<1>3. ASSUME NEW alpha \in {1, 5}, NEW roiP \in [1 .. n -> PValues \cup {Null}]
      PROVE  /\ \A clears \in [1 .. n -> BOOLEAN] :
                  Edges(clears, roiP, alpha) = Clearing(clears, roiP, n, alpha)
             /\ {j \in 1 .. n : roiP[j] # Null} = 1 .. n =>
                  \A cut \in 0 .. n :
                    SeenAlike(roiP, cut, n, InSignificantSet(roiP, {j \in 1 .. n : roiP[j] # Null}, alpha), alpha)
  <2>1. n \in Nat /\ alpha \in 1 .. 100 /\ roiP \in [1 .. n -> Nat \cup {Null}]
    <3>1. n \in Nat /\ alpha \in 1 .. 100
      BY TestsAssumption
    <3>2. PValues \cup {Null} \subseteq Nat \cup {Null}
      BY TestsAssumption
    <3>. QED  BY <1>3, <3>1, <3>2
  <2>2. ASSUME NEW clears \in [1 .. n -> BOOLEAN]
        PROVE  Edges(clears, roiP, alpha) = Clearing(clears, roiP, n, alpha)
    <3>1. n \in Nat
      BY <2>1
    <3>2. alpha \in 1 .. 100
      BY <2>1
    <3>3. roiP \in [1 .. n -> Nat \cup {Null}]
      BY <2>1
    <3>. QED  BY <3>1, <3>2, <3>3, EdgesAre
  <2>3. ASSUME {j \in 1 .. n : roiP[j] # Null} = 1 .. n, NEW cut \in 0 .. n
        PROVE  SeenAlike(roiP, cut, n, InSignificantSet(roiP, {j \in 1 .. n : roiP[j] # Null}, alpha), alpha)
    <3>1. roiP \in [1 .. n -> Nat]
      <4>1. \A i \in 1 .. n : roiP[i] # Null
        BY <2>3
      <4>. QED  BY <2>1, <4>1
    <3>2. n \in Nat
      BY <2>1
    <3>3. alpha \in 1 .. 100
      BY <2>1
    <3>4. SeenAlike(roiP, cut, n, InSignificantSet(roiP, 1 .. n, alpha), alpha)
      BY <3>1, <3>2, <3>3, ViewsAre
    <3>. QED  BY <2>3, <3>4
  <2>. QED  BY <2>2, <2>3, Zenon
<1>. QED  BY <1>2, <1>3, Zenon

\* Finitely many functions lead from one finite set to another.
LEMMA FunctionsAreFinite ==
  ASSUME NEW S, IsFiniteSet(S), NEW T, IsFiniteSet(T)
  PROVE  IsFiniteSet([S -> T])
<1>. DEFINE graph == [f \in [S -> T] |-> {<<x, f[x]>> : x \in S}]
<1>1. graph \in [[S -> T] -> SUBSET (S \X T)]
  OBVIOUS
<1>2. \A f \in [S -> T] : graph[f] = {<<x, f[x]>> : x \in S}
  OBVIOUS
<1>. HIDE DEF graph
<1>3. ASSUME NEW f \in [S -> T], NEW g \in [S -> T], graph[f] = graph[g]
      PROVE  f = g
  <2>1. ASSUME NEW x \in S PROVE f[x] = g[x]
    <3>1. <<x, f[x]>> \in graph[g]
      BY <1>2, <1>3
    <3>2. PICK y \in S : <<x, f[x]>> = <<y, g[y]>>
      BY <1>2, <3>1
    <3>. QED  BY <3>2
  <2>. QED  BY <2>1
<1>4. graph \in Injection([S -> T], SUBSET (S \X T))
  BY <1>1, <1>3 DEF Injection, IsInjective
<1>5. IsFiniteSet(SUBSET (S \X T))
  BY FS_Product, FS_SUBSET
<1>. QED  BY <1>4, <1>5, FS_Injection

\* Two things are finitely many.
LEMMA PairsAreFinite ==
  ASSUME NEW a, NEW b
  PROVE  IsFiniteSet({a, b})
<1>1. IsFiniteSet({a})
  BY FS_Singleton, Zenon
<1>2. IsFiniteSet({b})
  BY FS_Singleton, Zenon
<1>3. {a, b} = {a} \cup {b}
  OBVIOUS
<1>4. IsFiniteSet({a} \cup {b})
  BY <1>1, <1>2, FS_Union, Zenon
<1>. QED  BY <1>3, <1>4, Zenon

\* There are finitely many contexts of outcomes to condition on.
LEMMA ContextsAreFinite == IsFiniteSet(Contexts)
<1>1. IsFiniteSet(Directions)
  BY PairsAreFinite, Zenon DEF Directions
<1>2. ASSUME NEW k \in 1 .. MaxOrder PROVE IsFiniteSet([1 .. k -> Directions])
  <2>1. IsFiniteSet(1 .. k)
    BY FS_Interval
  <2>. QED  BY <1>1, <2>1, FunctionsAreFinite
<1>. DEFINE words == [k \in 1 .. MaxOrder |-> [1 .. k -> Directions]]
<1>3. IsFiniteSet({words[k] : k \in 1 .. MaxOrder})
  <2>0. 1 \in Int /\ MaxOrder \in Int
    BY DEF MaxOrder
  <2>1. IsFiniteSet(1 .. MaxOrder)
    BY <2>0, FS_Interval, Zenon
  <2>. HIDE DEF words
  <2>. QED  BY <2>1, ImageIsFinite
<1>4. \A k \in 1 .. MaxOrder : words[k] = [1 .. k -> Directions]
  OBVIOUS
<1>. HIDE DEF words
<1>5. Contexts = UNION {words[k] : k \in 1 .. MaxOrder}
  BY <1>4 DEF Contexts
<1>6. \A set \in {words[k] : k \in 1 .. MaxOrder} : IsFiniteSet(set)
  BY <1>2, <1>4
<1>. QED  BY <1>3, <1>5, <1>6, FS_UNION

\* A study tries finitely many rules.
LEMMA StudiesAreFinite ==
  ASSUME NEW all, NEW bets
  PROVE  IsFiniteSet(Studies(all, bets))
<1>. DEFINE following == [c \in Contexts |-> Following(all, 2, c)]
            hours == [h \in 0 .. 23 |-> AtHour(all, h)]
            F == {following[c] : c \in Contexts}
            H == {hours[h] : h \in 0 .. 23}
            study == [S \in F \cup H |-> <<Hypothesis(all, S), RuleBets(all, S)>>]
            pools == [rule \in poolStudy(all, bets) |-> <<Null, rule>>]
<1>1. IsFiniteSet(F)
  <2>. HIDE DEF following
  <2>. QED  BY ContextsAreFinite, ImageIsFinite
<1>2. IsFiniteSet(H)
  <2>0. 0 \in Int /\ 23 \in Int
    OBVIOUS
  <2>1. IsFiniteSet(0 .. 23)
    BY <2>0, FS_Interval, Zenon
  <2>. HIDE DEF hours
  <2>. QED  BY <2>1, ImageIsFinite
<1>3. IsFiniteSet(F \cup H)
  <2>. HIDE DEF F, H
  <2>. QED  BY <1>1, <1>2, FS_Union, Zenon
<1>4. IsFiniteSet({study[S] : S \in F \cup H})
  <2>. HIDE DEF F, H, study
  <2>. QED  BY <1>3, ImageIsFinite
<1>5. IsFiniteSet(poolStudy(all, bets))
  <2>1. \E a, b : poolStudy(all, bets) = {a, b}
    BY Zenon DEF poolStudy
  <2>. QED  BY <2>1, PairsAreFinite, Zenon
<1>6. IsFiniteSet({pools[rule] : rule \in poolStudy(all, bets)})
  <2>. HIDE DEF pools
  <2>. QED  BY <1>5, ImageIsFinite
<1>7. Studies(all, bets) = {study[S] : S \in F \cup H} \cup {pools[rule] : rule \in poolStudy(all, bets)}
  <2>1. F = {Following(all, 2, c) : c \in Contexts}
    BY Zenon
  <2>2. H = {AtHour(all, h) : h \in 0 .. 23}
    BY Zenon
  <2>. HIDE DEF F, H
  <2>3. {study[S] : S \in F \cup H} = {<<Hypothesis(all, S), RuleBets(all, S)>> : S \in F \cup H}
    <3>1. \A S \in F \cup H : study[S] = <<Hypothesis(all, S), RuleBets(all, S)>>
      BY Zenon
    <3>. HIDE DEF study
    <3>. QED  BY <3>1, Zenon
  <2>4. {pools[rule] : rule \in poolStudy(all, bets)} = {<<Null, rule>> : rule \in poolStudy(all, bets)}
    <3>1. \A rule \in poolStudy(all, bets) : pools[rule] = <<Null, rule>>
      BY Zenon
    <3>. HIDE DEF pools
    <3>. QED  BY <3>1, Zenon
  <2>. HIDE DEF study, pools
  <2>. QED  BY <2>1, <2>2, <2>3, <2>4, Zenon DEF Studies
<1>. HIDE DEF F, H, study, pools
<1>. QED  BY <1>4, <1>6, <1>7, FS_Union, Zenon

\* Whatever p-values the rules of a study get, an edge is a rule that clears and whose p-value holds
\* up in some set of the tests at the level of the set, and the ledger corrects the tests of all its
\* experiments as one (statistics.ts benjaminiHochberg, research.ts runStudy, services/research.ts).
THEOREM EdgesAreTrue == Spec => []EdgesAreCorrected
<1>1. EdgesAreCorrected
  <2>. DEFINE betting == {study \in Studies(Rows(rounds), Logs(Stored)) : study[2] # {}}
              n == Cardinality(betting)
  <2>1. SUFFICES ASSUME betting # {} PROVE Corrected[Min({MaxTests, n})]
    BY DEF EdgesAreCorrected
  <2>2. IsFiniteSet(betting)
    <3>1. IsFiniteSet(Studies(Rows(rounds), Logs(Stored)))
      BY StudiesAreFinite
    <3>. QED  BY <3>1, FS_Subset
  <2>3. n \in Nat /\ n # 0
    <3>. HIDE DEF betting
    <3>. QED  BY <2>1, <2>2, FS_CardinalityType, FS_EmptySet
  <2>. HIDE DEF n
  <2>4. MaxTests \in Int /\ n \in Int
    BY <2>3, TestsAssumption
  <2>5. Min({MaxTests, n}) \in {MaxTests, n} /\ Min({MaxTests, n}) <= MaxTests
    BY <2>4, MinOfTwo, Zenon
  <2>6. Min({MaxTests, n}) \in 1 .. MaxTests
    BY <2>3, <2>5, TestsAssumption
  <2>. QED  BY <2>6, CorrectedAlways DEF n
<1>. QED  BY <1>1, PTL

-----------------------------------------------------------------------------
\* The cooldown of a recovery ladder.

\* The numbers from 1 to n in ascending order.
LEMMA AscendingInterval ==
  ASSUME NEW n \in Nat
  PROVE  Ascending(1 .. n) = [i \in 1 .. n |-> i]
<1>1. IsFiniteSet(1 .. n) /\ Cardinality(1 .. n) = n
  BY FS_Interval
<1>2. ASSUME NEW k \in 1 .. n
      PROVE  Rank(1 .. n, k) = k
  <2>1. {y \in 1 .. n : y <= k} = 1 .. k
    OBVIOUS
  <2>2. 1 \in Int /\ k \in Int /\ k >= 1
    OBVIOUS
  <2>3. Cardinality(1 .. k) = k
    BY <2>2, FS_Interval
  <2>. QED  BY <2>1, <2>3 DEF Rank
<1>3. ASSUME NEW k \in 1 .. n
      PROVE  (CHOOSE x \in 1 .. n : Rank(1 .. n, x) = k) = k
  <2>1. \A x \in 1 .. n : Rank(1 .. n, x) = k <=> x = k
    BY <1>2
  <2>. QED  BY <2>1
<1>. QED  BY <1>1, <1>3 DEF Ascending

\* The trades a strategy is shown are the latest of its ledger, the latest first.
LEMMA OwnTradesAre ==
  ASSUME NEW entries, entries \in Seq(Range(entries)), NEW epoch,
         \A n \in DOMAIN entries : entries[n].epoch < epoch
  PROVE  \E size \in Nat :
           /\ \A i \in Int : i \in 1 .. size <=> i \in 1 .. Len(entries) /\ i <= OWN_TRADES_LOOKBACK
           /\ DOMAIN OwnTrades(entries, epoch) = 1 .. size
           /\ \A i \in 1 .. size : OwnTrades(entries, epoch)[i] = entries[Len(entries) + 1 - i]
<1>. DEFINE L == Len(entries)
            latest == LastN(entries, OWN_TRADES_LOOKBACK)
            I == {n \in DOMAIN latest : latest[n].epoch < epoch}
            from == Max({1, L - OWN_TRADES_LOOKBACK + 1})
            size == L - from + 1
            back == OWN_TRADES_LOOKBACK
<1>1. L \in Nat /\ DOMAIN entries = 1 .. L /\ back = 20
  BY DEF OWN_TRADES_LOOKBACK
<1>2. from \in {1, L - back + 1} /\ 1 <= from /\ L - back + 1 <= from
  <2>. DEFINE a == 1 b == L - back + 1
  <2>1. a \in Int /\ b \in Int
    BY <1>1
  <2>. HIDE DEF a, b
  <2>2. Max({a, b}) \in {a, b} /\ a <= Max({a, b}) /\ b <= Max({a, b})
    BY <2>1, MaxOfTwo, Zenon
  <2>. QED  BY <2>2 DEF a, b
<1>3. latest = SubSeq(entries, from, L)
  BY DEF LastN
<1>. HIDE DEF from, latest, back, I
<1>4. from \in 1 .. L + 1 /\ size \in Nat
  <2>1. L \in Nat /\ back = 20
    BY <1>1
  <2>. HIDE DEF L
  <2>2. L - back + 1 \in Int
    BY <2>1
  <2>3. from \in Int /\ from <= L + 1
    BY <1>2, <2>1, <2>2
  <2>. QED  BY <1>2, <2>1, <2>3
<1>5. DOMAIN latest = 1 .. size /\ latest = [i \in 1 .. size |-> latest[i]]
      /\ \A i \in 1 .. size : latest[i] = entries[from + i - 1]
  <2>1. DOMAIN latest = 1 .. size
    BY <1>1, <1>3, <1>4
  <2>2. \A i \in 1 .. size : latest[i] = entries[from + i - 1]
    BY <1>1, <1>3, <1>4
  <2>3. latest = [i \in DOMAIN latest |-> latest[i]]
    BY <1>1, <1>3, <1>4
  <2>. HIDE DEF size
  <2>. QED  BY <2>1, <2>2, <2>3
<1>6. I = 1 .. size
  <2>1. ASSUME NEW i \in 1 .. size PROVE latest[i].epoch < epoch
    <3>1. from + i - 1 \in 1 .. L
      BY <1>1, <1>4
    <3>. QED  BY <3>1, <1>1, <1>5
  <2>. HIDE DEF size
  <2>. QED  BY <1>5, <2>1 DEF I
<1>7. Picked(latest, I) = latest
  <2>. DEFINE order == Ascending(1 .. size)
  <2>1. order = [i \in 1 .. size |-> i]
    BY <1>4, AscendingInterval
  <2>2. Picked(latest, 1 .. size) = [k \in DOMAIN order |-> latest[order[k]]]
    BY Zenon DEF Picked
  <2>. HIDE DEF order, size
  <2>3. [k \in DOMAIN order |-> latest[order[k]]] = [k \in 1 .. size |-> latest[k]]
    BY <2>1
  <2>4. latest = [k \in 1 .. size |-> latest[k]]
    BY <1>5
  <2>. QED  BY <1>6, <2>2, <2>3, <2>4
<1>8. OwnTrades(entries, epoch) = Reverse(latest)
  BY <1>7, Zenon DEF OwnTrades, latest, I, back
<1>9. Len(latest) = size
  <2>. DEFINE R == Range(latest)
  <2>. HIDE DEF size
  <2>1. \A i \in 1 .. size : latest[i] \in R
    BY <1>5 DEF Range
  <2>. HIDE DEF R
  <2>2. latest \in Seq(R)
    BY <1>4, <1>5, <2>1
  <2>. QED  BY <1>4, <1>5, <2>2
<1>10. DOMAIN OwnTrades(entries, epoch) = 1 .. size
       /\ \A i \in 1 .. size : OwnTrades(entries, epoch)[i] = latest[size - i + 1]
  <2>1. OwnTrades(entries, epoch) = [i \in 1 .. Len(latest) |-> latest[(Len(latest) - i) + 1]]
    BY <1>8, Zenon DEF Reverse
  <2>. HIDE DEF size
  <2>2. OwnTrades(entries, epoch) = [i \in 1 .. size |-> latest[(size - i) + 1]]
    BY <1>9, <2>1
  <2>. QED  BY <2>2
<1>11. ASSUME NEW i \in 1 .. size PROVE latest[size - i + 1] = entries[L + 1 - i]
  <2>1. size - i + 1 \in 1 .. size /\ from + (size - i + 1) - 1 = L + 1 - i
    BY <1>1, <1>4
  <2>. QED  BY <2>1, <1>5
<1>12. \A i \in Int : i \in 1 .. size <=> i \in 1 .. L /\ i <= OWN_TRADES_LOOKBACK
  <2>1. OWN_TRADES_LOOKBACK = 20 /\ L \in Nat /\ from \in Int /\ size = L - from + 1
    BY <1>1, <1>4 DEF OWN_TRADES_LOOKBACK
  <2>2. from \in {1, L - 19} /\ 1 <= from /\ L - 19 <= from
    <3>. HIDE DEF L
    <3>. QED  BY <1>1, <1>2, <2>1
  <2>. HIDE DEF L, size
  <2>. QED  BY <2>1, <2>2
<1>. QED  BY <1>4, <1>10, <1>11, <1>12

\* An exhausted ladder bets only once its cooldown is over.
LEMMA LadderCoolsDown ==
  ASSUME NEW c, NEW n \in Nat, DOMAIN c.ownTrades = 1 .. n,
         NEW p, p.maxRecoverySteps \in Nat \ {0},
         sequenceRecovery(c, p).action # "SKIP", Cardinality(LossesOf(c.ownTrades)) >= p.maxRecoverySteps
  PROVE  \E i \in LossesOf(c.ownTrades) :
           /\ \A j \in LossesOf(c.ownTrades) : i <= j
           /\ ~(c.epoch - c.ownTrades[i].epoch <= p.recoveryCooldownRounds)
<1>. DEFINE own == c.ownTrades
            lost == LossesSinceWin(own)
            fresh == FreshEntry(c, p)
            exhausted == lost # << >> /\ Len(lost) >= p.maxRecoverySteps
            cooling == IF CoolingDown(c, lost, p) THEN Skip ELSE fresh
            climbing == IF Reversed(toSequence(c.history), opposite(lost[1].direction), p)
                        THEN LadderEntry(c, lost, p) ELSE Skip
<1>1. /\ Cardinality(LossesOf(own)) \in Nat /\ Len(lost) = Cardinality(LossesOf(own))
      /\ LossesOf(own) # {} => /\ lost # << >>
                              /\ \E i \in LossesOf(own) : lost[1] = own[i] /\ \A j \in LossesOf(own) : i <= j
  BY LossesAre
<1>2. LossesOf(own) # {}
  <2>1. Cardinality(LossesOf(own)) # 0
    BY <1>1
  <2>. QED  BY <2>1, FS_EmptySet
<1>3. exhausted
  BY <1>1, <1>2
<1>4. sequenceRecovery(c, p) = CASE lost = << >> -> fresh [] exhausted -> cooling [] OTHER -> climbing
  BY Zenon DEF sequenceRecovery
<1>5. sequenceRecovery(c, p) = cooling
  <2>1. lost # << >>
    BY <1>3
  <2>. HIDE DEF exhausted, fresh, cooling, climbing, lost
  <2>. QED  BY <1>3, <1>4, <2>1, Zenon
<1>6. ~CoolingDown(c, lost, p)
  <2>1. Skip.action = "SKIP"
    BY DEF Skip
  <2>. QED  BY <1>5, <2>1
<1>7. PICK i \in LossesOf(own) : lost[1] = own[i] /\ \A j \in LossesOf(own) : i <= j
  BY <1>1, <1>2
<1>8. ~(c.epoch - own[i].epoch <= p.recoveryCooldownRounds)
  BY <1>6, <1>7 DEF CoolingDown
<1>. QED  BY <1>7, <1>8

\* A decision to bet comes from a signal to bet.
LEMMA BetsOnASignal ==
  ASSUME NEW cfg, NEW s, NEW all, NEW now, DecisionAt(cfg, s, all, now).kind = "TRADE"
  PROVE  evaluate(cfg.plugin, ContextAt(cfg, s, all, now), cfg.params).action # "SKIP"
<1>. DEFINE signal == evaluate(cfg.plugin, ContextAt(cfg, s, all, now), cfg.params)
            i == [mode |-> "BACKTEST", config |-> cfg, limits |-> Limits(cfg),
                  state |-> RiskStateAt(s, Last(all), now), gates |-> << >>, minBet |-> MinBet,
                  pool |-> Null, costs |-> Null]
<1>1. DecisionAt(cfg, s, all, now) = decide(i, signal)
  BY Zenon DEF DecisionAt
<1>2. ASSUME signal.action = "SKIP" PROVE decide(i, signal) = NoTrade
  <2>. HIDE DEF i, signal
  <2>. QED  BY <1>2, Zenon DEF decide
<1>3. NoTrade.kind # "TRADE"
  BY DEF NoTrade
<1>. QED  BY <1>1, <1>2, <1>3

\* What a strategy is shown of its own trades: the latest ones of the ledger.
ShowsTrades(c, entries, epoch) ==
  /\ c.epoch = epoch
  /\ \E size \in Nat :
       /\ \A i \in Int : i \in 1 .. size <=> i \in 1 .. Len(entries) /\ i <= OWN_TRADES_LOOKBACK
       /\ DOMAIN c.ownTrades = 1 .. size
       /\ \A i \in 1 .. size : /\ c.ownTrades[i].result = entries[Len(entries) + 1 - i].result
                               /\ c.ownTrades[i].epoch = entries[Len(entries) + 1 - i].epoch

LEMMA ShownTrades ==
  ASSUME NEW cfg, NEW s, s.entries \in Seq(Range(s.entries)), NEW all, NEW now,
         \A n \in DOMAIN s.entries : s.entries[n].epoch < Last(all).epoch
  PROVE  ShowsTrades(ContextAt(cfg, s, all, now), s.entries, Last(all).epoch)
<1>. DEFINE before == Front(all)
            epoch == Last(all).epoch
            known == Picked(before, Known(before, epoch, now))
            price == RunningPrice(RoundBefore(before, epoch, now))
            c == ContextOf(cfg, s, epoch, known, price)
            own == OwnTrades(s.entries, epoch)
            L == Len(s.entries)
<1>1. ContextAt(cfg, s, all, now) = c
  BY ContextAtIs, Zenon
<1>2. PICK size \in Nat : /\ \A i \in Int : i \in 1 .. size <=> i \in 1 .. L /\ i <= OWN_TRADES_LOOKBACK
                          /\ DOMAIN own = 1 .. size
                          /\ \A i \in 1 .. size : own[i] = s.entries[L + 1 - i]
  BY OwnTradesAre
<1>. HIDE DEF known, price, epoch, own
<1>3. c.epoch = epoch
      /\ c.ownTrades = [n \in DOMAIN own |-> [epoch |-> own[n].epoch, direction |-> own[n].direction,
                                            amount |-> own[n].amount, result |-> own[n].result]]
  BY Zenon DEF ContextOf, own
<1>. HIDE DEF c
<1>4. DOMAIN c.ownTrades = 1 .. size
  BY <1>2, <1>3
<1>5. ASSUME NEW i \in 1 .. size
      PROVE  c.ownTrades[i].result = s.entries[L + 1 - i].result /\ c.ownTrades[i].epoch = s.entries[L + 1 - i].epoch
  <2>1. c.ownTrades[i] = [epoch |-> own[i].epoch, direction |-> own[i].direction,
                          amount |-> own[i].amount, result |-> own[i].result]
    BY <1>2, <1>3
  <2>2. own[i] = s.entries[L + 1 - i]
    BY <1>2
  <2>. HIDE DEF L
  <2>. QED  BY <2>1, <2>2
<1>. QED  BY <1>1, <1>2, <1>3, <1>4, <1>5 DEF ShowsTrades, epoch

\* The losses of the trades shown are those of the ledger before the bet, the other way round.
ShowsLosses(own, size, new, N) ==
  /\ DOMAIN own = 1 .. size
  /\ \A i \in Int : i \in 1 .. size <=> i \in 1 .. N - 1 /\ i <= OWN_TRADES_LOOKBACK
  /\ \A i \in 1 .. size : own[i].result = new[N - i].result
  /\ \A m \in 1 .. N - 1 : new[m].result \in {"WON", "LOST"} =>
                              new[m].settledAt # Null /\ new[m].settledAt <= new[N].placedAt

SameLosses(own, new, N) ==
  /\ Cardinality(LostBefore(new, N)) = Cardinality(LossesOf(own))
  /\ \A i \in LossesOf(own) : (\A j \in LossesOf(own) : i <= j) => Max(LostBefore(new, N)) = N - i

LEMMA LossesShown ==
  ASSUME NEW new, NEW N \in Nat \ {0}, NEW size \in Nat, NEW own, ShowsLosses(own, size, new, N)
  PROVE  SameLosses(own, new, N)
<1>. USE DEF ShowsLosses
<1>. DEFINE I == LossesOf(own)
            J == LostBefore(new, N)
            back == OWN_TRADES_LOOKBACK
            Losing(m) == new[m].result = "LOST"
            Winning(m) == new[m].result = "WON"
<1>0. back \in Nat
  BY DEF OWN_TRADES_LOOKBACK
<1>. HIDE DEF back
<1>1. \A i \in Int : i \in I <=> i \in 1 .. size /\ Losing(N - i) /\ \A j \in 1 .. size : Winning(N - j) => i < j
  BY DEF LossesOf
<1>2. \A m \in Int : m \in J <=> /\ m \in 1 .. N - 1 /\ N - m <= back /\ Losing(m)
                                 /\ \A w \in 1 .. N - 1 : N - w <= back /\ Winning(w) => w < m
  <2>1. \A m \in Int : m \in ShownTo(new, N) <=>
          /\ m \in 1 .. N - 1 /\ N - m <= back
          /\ new[m].settledAt # Null /\ new[m].settledAt <= new[N].placedAt
    BY DEF ShownTo, back
  <2>2. \A m \in Int : Losing(m) \/ Winning(m) => (m \in ShownTo(new, N) <=> m \in 1 .. N - 1 /\ N - m <= back)
    BY <2>1
  <2>3. J = {m \in ShownTo(new, N) : Losing(m) /\ \A w \in {v \in ShownTo(new, N) : Winning(v)} : w < m}
    BY DEF LostBefore
  <2>4. ShownTo(new, N) \subseteq 1 .. N - 1
    BY DEF ShownTo
  <2>. HIDE DEF J
  <2>5. ASSUME NEW m \in Int, Losing(m)
        PROVE  (\A w \in {v \in ShownTo(new, N) : Winning(v)} : w < m)
                 <=> \A w \in 1 .. N - 1 : N - w <= back /\ Winning(w) => w < m
    <3>. HIDE DEF Winning, Losing
    <3>. QED  BY <2>2, <2>4
  <2>. HIDE DEF Winning, Losing
  <2>. QED  BY <2>2, <2>3, <2>4, <2>5
<1>. HIDE DEF I, J, Losing, Winning
<1>3. \A i \in Int : i \in 1 .. size <=> N - i \in 1 .. N - 1 /\ N - (N - i) <= back
  BY DEF back
<1>4. ASSUME NEW i \in Int PROVE i \in I <=> N - i \in J
  <2>1. (\A j \in 1 .. size : Winning(N - j) => i < j)
          <=> \A w \in 1 .. N - 1 : N - w <= back /\ Winning(w) => w < N - i
    <3>1. ASSUME \A j \in 1 .. size : Winning(N - j) => i < j, NEW w \in 1 .. N - 1, N - w <= back, Winning(w)
          PROVE  w < N - i
      <4>. DEFINE j == N - w
      <4>1. j \in Int /\ N - j = w
        OBVIOUS
      <4>2. j \in 1 .. size
        BY <1>3, <3>1, <4>1
      <4>. HIDE DEF j
      <4>. QED  BY <3>1, <4>1, <4>2
    <3>2. ASSUME \A w \in 1 .. N - 1 : N - w <= back /\ Winning(w) => w < N - i, NEW j \in 1 .. size, Winning(N - j)
          PROVE  i < j
      <4>. DEFINE w == N - j
      <4>1. w \in Int /\ w \in 1 .. N - 1 /\ N - w <= back
        BY <1>3
      <4>2. w < N - i
        BY <3>2, <4>1
      <4>. QED  BY <4>2
    <3>. QED  BY <3>1, <3>2
  <2>2. N - i \in Int
    OBVIOUS
  <2>3. i \in 1 .. size <=> N - i \in 1 .. N - 1 /\ N - (N - i) <= back
    BY <1>3
  <2>. QED  BY <1>1, <1>2, <2>1, <2>2, <2>3
<1>5. I \subseteq 1 .. size /\ J \subseteq 1 .. N - 1
  <2>1. I \subseteq Int /\ J \subseteq Int
    BY DEF I, J, LossesOf, LostBefore, ShownTo
  <2>. QED  BY <1>1, <1>2, <2>1
<1>6. IsFiniteSet(I) /\ IsFiniteSet(J)
  <2>1. IsFiniteSet(1 .. size) /\ IsFiniteSet(1 .. N - 1)
    BY FS_Interval
  <2>. QED  BY <1>5, <2>1, FS_Subset
<1>7. Cardinality(J) = Cardinality(I)
  <2>. DEFINE f == [i \in I |-> N - i]
  <2>1. f \in [I -> J]
    BY <1>4, <1>5
  <2>2. \A i, j \in I : f[i] = f[j] => i = j
    BY <1>5
  <2>3. \A m \in J : \E i \in I : f[i] = m
    <3>. TAKE m \in J
    <3>. DEFINE i == N - m
    <3>1. i \in Int /\ N - i = m
      BY <1>5
    <3>2. i \in I
      BY <1>4, <3>1
    <3>. HIDE DEF i
    <3>. WITNESS i \in I
    <3>. QED  BY <3>1, <3>2
  <2>. HIDE DEF f
  <2>4. f \in Bijection(I, J)
    BY <2>1, <2>2, <2>3 DEF Bijection, Injection, Surjection, IsInjective
  <2>. QED  BY <1>6, <2>4, FS_Bijection DEF ExistsBijection
<1>8. ASSUME NEW i \in I, \A j \in I : i <= j PROVE Max(J) = N - i
  <2>1. i \in Int /\ N - i \in J
    BY <1>4, <1>5
  <2>2. J \in SUBSET Int /\ J # {}
    BY <1>5, <2>1
  <2>3. Max(J) \in J /\ \A x \in J : x <= Max(J)
    BY <1>6, <2>2, MaxIs
  <2>. DEFINE top == Max(J)
  <2>. HIDE DEF top
  <2>4. top \in J /\ top \in Int /\ N - i <= top
    BY <2>1, <2>2, <2>3 DEF top
  <2>5. N - top \in I
    <3>1. N - top \in Int /\ N - (N - top) = top
      BY <2>4
    <3>. QED  BY <1>4, <2>4, <3>1
  <2>6. i <= N - top
    BY <1>8, <2>5
  <2>7. top = N - i
    BY <2>1, <2>4, <2>6
  <2>. QED  BY <2>7 DEF top
<1>. QED  BY <1>7, <1>8, Zenon DEF I, J, SameLosses

\* The n-th bet of a ladder keeps the cooldown.
KeepsCooldown(all, n, p) ==
  LET lost == LostBefore(all, n)
  IN  Cardinality(lost) >= p.maxRecoverySteps => all[n].epoch - all[Max(lost)].epoch > p.recoveryCooldownRounds

\* That is about nothing but the bets up to it, and what was known of them when it was placed.
LEMMA CooldownStays ==
  ASSUME NEW old, NEW new, NEW n \in Nat,
         \A m \in 1 .. n : /\ new[m].epoch = old[m].epoch /\ new[m].placedAt = old[m].placedAt
                           /\ \/ new[m].settledAt = old[m].settledAt /\ new[m].result = old[m].result
                              \/ /\ ~(old[m].settledAt # Null /\ old[m].settledAt <= old[n].placedAt)
                                 /\ ~(new[m].settledAt # Null /\ new[m].settledAt <= old[n].placedAt),
         NEW p, p.maxRecoverySteps \in Nat \ {0}, n \in Nat \ {0}, KeepsCooldown(old, n, p)
  PROVE  KeepsCooldown(new, n, p)
<1>1. ShownTo(new, n) = ShownTo(old, n)
  BY DEF ShownTo
<1>2. ShownTo(old, n) \subseteq 1 .. n - 1
  BY DEF ShownTo
<1>3. \A m \in ShownTo(old, n) : new[m].result = old[m].result
  BY DEF ShownTo
<1>4. LostBefore(new, n) = LostBefore(old, n)
  BY <1>1, <1>3, Zenon DEF LostBefore
<1>. DEFINE lost == LostBefore(old, n)
<1>5. IsFiniteSet(lost) /\ lost \in SUBSET Int /\ lost \subseteq 1 .. n
  <2>1. lost \subseteq ShownTo(old, n)
    BY DEF LostBefore
  <2>. HIDE DEF lost
  <2>2. IsFiniteSet(1 .. n - 1)
    BY FS_Interval
  <2>3. IsFiniteSet(lost)
    BY <1>2, <2>1, <2>2, FS_Subset
  <2>. QED  BY <1>2, <2>1, <2>3
<1>. HIDE DEF lost
<1>. SUFFICES ASSUME Cardinality(lost) >= p.maxRecoverySteps
              PROVE  new[n].epoch - new[Max(lost)].epoch > p.recoveryCooldownRounds
  BY <1>4 DEF KeepsCooldown, lost
<1>6. old[n].epoch - old[Max(lost)].epoch > p.recoveryCooldownRounds
  BY DEF KeepsCooldown, lost
<1>7. lost # {}
  <2>1. Cardinality({}) = 0
    BY FS_EmptySet
  <2>. QED  BY <2>1
<1>8. Max(lost) \in 1 .. n
  BY <1>5, <1>7, MaxIs
<1>. QED  BY <1>6, <1>8

\* The parameters of a ladder that bound it.
LEMMA LadderBounds ==
  ASSUME NEW cfg, ValidConfig(cfg), cfg.plugin = "sequence-recovery"
  PROVE  cfg.params.maxRecoverySteps \in Nat \ {0} /\ cfg.params.recoveryCooldownRounds \in Nat
<1>1. validateParams("sequence-recovery", cfg.params)
  BY DEF ValidConfig
<1>. QED  BY <1>1, LadderParams

\* A bet that is placed keeps it.
LEMMA NewBetKeepsCooldown ==
  ASSUME NEW f, NEW all, IsRounds(f, all), NEW now \in Int, NEW s, SimInv(f, s, all), UpTo(s, all, now),
         \A n \in DOMAIN s.entries : s.entries[n].epoch < Last(all).epoch,
         NEW cfg, ValidConfig(cfg), cfg.plugin = "sequence-recovery", DecisionAt(cfg, s, all, now).kind = "TRADE",
         NEW new, NEW e, IsExtended(new, s.entries, e), e.epoch = Last(all).epoch, e.placedAt = now,
         Last(all).epoch \in Nat
  PROVE  KeepsCooldown(new, Len(s.entries) + 1, cfg.params)
<1>. DEFINE L == Len(s.entries)
            N == L + 1
            p == cfg.params
            c == ContextAt(cfg, s, all, now)
            own == c.ownTrades
<1>1. p.maxRecoverySteps \in Nat \ {0} /\ p.recoveryCooldownRounds \in Nat
  BY LadderBounds
<1>2. sequenceRecovery(c, p).action # "SKIP"
  <2>1. evaluate(cfg.plugin, c, p).action # "SKIP"
    BY BetsOnASignal
  <2>. QED  BY <2>1, Zenon DEF evaluate
<1>3. s.entries \in Seq(Range(s.entries)) /\ L \in Nat /\ DOMAIN s.entries = 1 .. L
  BY LedgerTyped DEF SimInv, Based, IsSim
<1>4. ShowsTrades(c, s.entries, Last(all).epoch)
  <2>1. s.entries \in Seq(Range(s.entries))
    BY <1>3
  <2>. QED  BY <2>1, ShownTrades, Zenon
<1>5. PICK size \in Nat : /\ \A i \in Int : i \in 1 .. size <=> i \in 1 .. L /\ i <= OWN_TRADES_LOOKBACK
                          /\ DOMAIN own = 1 .. size
                          /\ \A i \in 1 .. size : /\ own[i].result = s.entries[L + 1 - i].result
                                                  /\ own[i].epoch = s.entries[L + 1 - i].epoch
                          /\ c.epoch = Last(all).epoch
  BY <1>4 DEF ShowsTrades
<1>. HIDE DEF c, own, p
<1>6. new[N] = e /\ \A n \in 1 .. L : new[n] = s.entries[n]
  BY <1>3 DEF IsExtended
<1>7. N \in Nat \ {0} /\ N - 1 = L /\ \A i \in 1 .. size : N - i \in 1 .. L
  BY <1>3, <1>5
<1>8. \A i \in 1 .. size : own[i].result = new[N - i].result /\ own[i].epoch = new[N - i].epoch
  <2>. TAKE i \in 1 .. size
  <2>1. N - i \in 1 .. L
    BY <1>7
  <2>2. new[N - i] = s.entries[N - i]
    BY <1>6, <2>1
  <2>3. own[i].result = s.entries[N - i].result /\ own[i].epoch = s.entries[N - i].epoch
    BY <1>5
  <2>. QED  BY <2>2, <2>3
<1>9. ASSUME NEW m \in 1 .. L, new[m].result \in {"WON", "LOST"}
      PROVE  new[m].settledAt # Null /\ new[m].settledAt <= new[N].placedAt
  <2>. DEFINE b == s.entries[m] r == RoundAt(all, s.entries[m].epoch)
  <2>1. b = new[m] /\ m \in DOMAIN s.entries
    BY <1>3, <1>6
  <2>2. m \in ClosedIn(s.entries)
    <3>1. m \in Pending(s) => IsPending(b)
      BY LedgerTyped
    <3>2. ~IsPending(b)
      BY <1>9, <2>1, ResultsAssumption DEF IsPending, TradeResults
    <3>. QED  BY <2>1, <3>1, <3>2, LedgerTyped
  <2>3. IsOutcome(b, r)
    BY <2>2, LedgerTyped
  <2>4. b.settledAt \in Nat /\ b.settledAt = knownAt(r)
    BY <2>3 DEF IsOutcome
  <2>5. knownAt(r) <= now
    BY <2>1, <2>2 DEF UpTo, ClosedIn
  <2>. HIDE DEF b, r
  <2>. QED  BY <1>6, <2>1, <2>4, <2>5, NullAssumption
<1>. HIDE DEF L
<1>10. SameLosses(own, new, N)
  <2>1. \A i \in Int : i \in 1 .. size <=> i \in 1 .. N - 1 /\ i <= OWN_TRADES_LOOKBACK
    BY <1>5, <1>7
  <2>2. \A i \in 1 .. size : own[i].result = new[N - i].result
    BY <1>8
  <2>3. \A m \in 1 .. N - 1 : new[m].result \in {"WON", "LOST"} =>
                                 new[m].settledAt # Null /\ new[m].settledAt <= new[N].placedAt
    BY <1>7, <1>9
  <2>4. DOMAIN own = 1 .. size
    BY <1>5
  <2>5. ShowsLosses(own, size, new, N)
    BY <2>1, <2>2, <2>3, <2>4, Zenon DEF ShowsLosses
  <2>. HIDE DEF N
  <2>. QED  BY <1>7, <2>5, LossesShown
<1>. SUFFICES ASSUME Cardinality(LossesOf(own)) >= p.maxRecoverySteps
              PROVE  new[N].epoch - new[Max(LostBefore(new, N))].epoch > p.recoveryCooldownRounds
  BY <1>10, Zenon DEF KeepsCooldown, SameLosses, p, N, L
<1>11. PICK i \in LossesOf(own) : /\ \A j \in LossesOf(own) : i <= j
                                  /\ ~(c.epoch - own[i].epoch <= p.recoveryCooldownRounds)
  BY <1>1, <1>2, <1>5, LadderCoolsDown DEF own
<1>12. i \in 1 .. size
  BY <1>5 DEF LossesOf
<1>13. Max(LostBefore(new, N)) = N - i /\ own[i].epoch = new[N - i].epoch /\ new[N].epoch = c.epoch
  BY <1>5, <1>6, <1>8, <1>10, <1>11, <1>12 DEF SameLosses
<1>14. c.epoch \in Int /\ own[i].epoch \in Int
  <2>1. N - i \in DOMAIN s.entries
    BY <1>3, <1>7, <1>12
  <2>2. s.entries[N - i].epoch \in Nat
    BY <2>1 DEF SimInv, IsLedger, IsBet
  <2>3. new[N - i] = s.entries[N - i]
    BY <1>3, <1>6, <2>1
  <2>. QED  BY <1>5, <1>13, <2>2, <2>3
<1>. QED  BY <1>1, <1>11, <1>13, <1>14

\* A ladder whose bets were placed by the time t, and kept the cooldown.
LadderKept(entries, p, t) ==
  \A n \in DOMAIN entries : entries[n].placedAt <= t /\ KeepsCooldown(entries, n, p)

\* Settling tells a ladder nothing of the time before its bets.
LEMMA SettlingKeepsLadder ==
  ASSUME NEW f, NEW all, IsRounds(f, all), NEW sim, SimInv(f, sim, all),
         NEW t0 \in Int, UpTo(sim, all, t0), NEW t \in Int, t0 <= t,
         NEW p, p.maxRecoverySteps \in Nat \ {0}, LadderKept(sim.entries, p, t0)
  PROVE  LadderKept(settleUpTo(sim, all, t).entries, p, t)
<1>. DEFINE s == settleUpTo(sim, all, t)
            due == Due(sim, all, t)
            old == sim.entries
            new == s.entries
<1>1. /\ due \subseteq Pending(sim) /\ \A n \in DOMAIN old \ due : new[n] = old[n]
      /\ \A n \in due : IsOutcome(new[n], RoundAt(all, new[n].epoch))
  BY SettledLedger
<1>2. DOMAIN new = DOMAIN old
      /\ \A n \in DOMAIN old : new[n].epoch = old[n].epoch /\ new[n].placedAt = old[n].placedAt
  <2>1. IsSim(sim)
    BY DEF SimInv, Based
  <2>. QED  BY <2>1, SettlingKeepsEntries
<1>3. /\ DOMAIN old = 1 .. Len(old) /\ Len(old) \in Nat
      /\ Pending(sim) = DOMAIN old \ ClosedIn(old) /\ \A n \in Pending(sim) : IsPending(old[n])
  BY LedgerTyped
<1>4. \A n \in DOMAIN old : old[n].placedAt \in Int
  BY DEF SimInv, IsLedger, IsBet
<1>. HIDE DEF s, due
<1>5. ASSUME NEW m \in due
      PROVE  old[m].settledAt = Null /\ new[m].settledAt \in Int /\ t0 < new[m].settledAt
  <2>. DEFINE r == RoundAt(all, old[m].epoch)
  <2>1. m \in DOMAIN old /\ m \notin ClosedIn(old) /\ IsPending(old[m])
    BY <1>1, <1>3
  <2>2. ~(knownAt(r) <= t0) /\ knownAt(r) \in Int
    BY <2>1, BetTimes DEF UpTo, ClosedIn, HasTimes
  <2>3. IsOutcome(new[m], RoundAt(all, new[m].epoch)) /\ new[m].epoch = old[m].epoch
    BY <1>1, <1>2, <2>1
  <2>4. new[m].settledAt = knownAt(r)
    BY <2>3 DEF IsOutcome
  <2>. HIDE DEF r
  <2>. QED  BY <2>1, <2>2, <2>4 DEF IsPending
<1>6. ASSUME NEW n \in DOMAIN old
      PROVE  KeepsCooldown(new, n, p)
  <2>1. n \in Nat \ {0} /\ old[n].placedAt \in Int /\ old[n].placedAt <= t0 /\ KeepsCooldown(old, n, p)
    BY <1>3, <1>4 DEF LadderKept
  <2>2. ASSUME NEW m \in 1 .. n
        PROVE  /\ new[m].epoch = old[m].epoch /\ new[m].placedAt = old[m].placedAt
               /\ \/ new[m].settledAt = old[m].settledAt /\ new[m].result = old[m].result
                  \/ /\ ~(old[m].settledAt # Null /\ old[m].settledAt <= old[n].placedAt)
                     /\ ~(new[m].settledAt # Null /\ new[m].settledAt <= old[n].placedAt)
    <3>1. m \in DOMAIN old
      BY <1>3
    <3>2. CASE m \in due
      <4>1. old[m].settledAt = Null /\ ~(new[m].settledAt <= old[n].placedAt)
        BY <1>5, <2>1, <3>2
      <4>. QED  BY <1>2, <3>1, <4>1
    <3>3. CASE m \notin due
      BY <1>1, <3>1, <3>3
    <3>. QED  BY <3>2, <3>3
  <2>. QED  BY <2>1, <2>2, CooldownStays
<1>7. \A n \in DOMAIN old : old[n].placedAt <= t
  BY <1>4 DEF LadderKept
<1>. QED  BY <1>2, <1>6, <1>7 DEF LadderKept, s

\* A decision to bet adds a bet that keeps the cooldown.
LEMMA BettingKeepsLadder ==
  ASSUME NEW f, NEW all, IsRounds(f, all), Last(all).epoch \in Nat, NEW now \in Int,
         NEW s, SimInv(f, s, all), UpTo(s, all, now),
         \A n \in DOMAIN s.entries : s.entries[n].epoch < Last(all).epoch,
         NEW cfg, ValidConfig(cfg), cfg.plugin = "sequence-recovery", DecisionAt(cfg, s, all, now).kind = "TRADE",
         NEW new, NEW e, IsExtended(new, s.entries, e), e.epoch = Last(all).epoch, e.placedAt = now,
         LadderKept(s.entries, cfg.params, now)
  PROVE  LadderKept(new, cfg.params, now)
<1>. DEFINE p == cfg.params old == s.entries
<1>1. p.maxRecoverySteps \in Nat \ {0}
  BY LadderBounds
<1>2. KeepsCooldown(new, Len(old) + 1, p)
  BY NewBetKeepsCooldown
<1>. HIDE DEF p, old
<1>3. /\ DOMAIN new = (DOMAIN old) \cup {Len(old) + 1} /\ Len(old) \in Nat /\ DOMAIN old = 1 .. Len(old)
      /\ new[Len(old) + 1] = e /\ \A n \in DOMAIN old : new[n] = old[n]
  BY DEF IsExtended, old
<1>4. ASSUME NEW n \in DOMAIN old
      PROVE  new[n].placedAt <= now /\ KeepsCooldown(new, n, p)
  <2>1. n \in Nat \ {0} /\ old[n].placedAt <= now /\ KeepsCooldown(old, n, p)
    BY <1>3 DEF LadderKept, p, old
  <2>2. \A m \in 1 .. n : new[m] = old[m]
    BY <1>3
  <2>3. KeepsCooldown(new, n, p)
    BY <1>1, <2>1, <2>2, CooldownStays
  <2>. QED  BY <1>3, <2>1, <2>3
<1>. QED  BY <1>2, <1>3, <1>4 DEF LadderKept, p, old

\* So does a decision, for the time of the next one.
LEMMA EvaluateKeepsLadder ==
  ASSUME NEW f, NEW all, IsRounds(f, all), all # << >>, Timed(Last(all)), Last(all).epoch <= MaxRounds,
         NEW cfg, ValidConfig(cfg), cfg.plugin \in Plugins, cfg.plugin = "sequence-recovery",
         NEW sim, NEW t0, Kept(f, sim, all, t0),
         sim.entries # << >> => t0 \in Int /\ t0 <= DecisionTime(cfg, Last(all)),
         \A n \in DOMAIN sim.entries : sim.entries[n].epoch < Last(all).epoch,
         LadderKept(sim.entries, cfg.params, t0)
  PROVE  LadderKept(Evaluate(cfg, sim, all).entries, cfg.params, DecisionTime(cfg, Last(all)))
<1>. DEFINE round == Last(all)
            now == DecisionTime(cfg, round)
            s == settleUpTo(sim, all, now)
            p == Evaluate(cfg, sim, all)
            m == Len(all)
<1>1. m \in DOMAIN all /\ round = all[m]
  <2>1. all \in Seq(Range(all))
    BY DEF IsRounds
  <2>. QED  BY <2>1, LastOf
<1>2. IsRound(f, round) /\ f # "PANCAKESWAP_V1" /\ round.epoch \in Nat
  <2>1. IsRound(f, round)
    BY <1>1 DEF IsRounds
  <2>. QED  BY <2>1, TimedIn DEF IsRound
<1>3. now \in Nat
  BY <1>2, DecisionTimeTyped
<1>4. Kept(f, s, all, now)
  <2>. HIDE DEF now
  <2>1. now \in Int /\ (sim.entries # << >> => t0 \in Int /\ t0 <= now)
    BY <1>3 DEF now
  <2>. QED  BY <2>1, KeptBySettling
<1>5. SimInv(f, sim, all) /\ UpTo(sim, all, t0) /\ IsSim(sim) /\ SimInv(f, s, all) /\ UpTo(s, all, now)
  BY <1>4 DEF Kept, SimInv, Based
<1>6. DOMAIN s.entries = DOMAIN sim.entries
      /\ \A n \in DOMAIN s.entries : s.entries[n].epoch < round.epoch
  <2>1. DOMAIN s.entries = DOMAIN sim.entries /\ \A n \in DOMAIN sim.entries : s.entries[n].epoch = sim.entries[n].epoch
    BY <1>5, SettlingKeepsEntries
  <2>. HIDE DEF s
  <2>. QED  BY <2>1
<1>7. LadderKept(s.entries, cfg.params, now)
  <2>1. CASE sim.entries = << >>
    <3>1. DOMAIN s.entries = {}
      BY <1>6, <2>1
    <3>. QED  BY <3>1 DEF LadderKept
  <2>2. CASE sim.entries # << >>
    <3>1. cfg.params.maxRecoverySteps \in Nat \ {0}
      BY LadderBounds
    <3>. HIDE DEF now
    <3>2. t0 \in Int /\ now \in Int /\ t0 <= now
      BY <1>3, <2>2 DEF now
    <3>. QED  BY <1>5, <3>1, <3>2, SettlingKeepsLadder
  <2>. QED  BY <2>1, <2>2
<1>8. p = s \/ \E e : IsBetting(p, s, e, round, now)
  BY <1>2, <1>5, EvaluateIs
<1>9. DecisionAt(cfg, s, all, now).kind # "TRADE" => p = s
  BY Zenon DEF Evaluate, Placed
<1>. HIDE DEF p, s, now, round
<1>10. ASSUME NEW e, IsBetting(p, s, e, round, now), DecisionAt(cfg, s, all, now).kind = "TRADE"
       PROVE  LadderKept(p.entries, cfg.params, now)
  <2>1. IsBetting(p, s, e, all[m], now) /\ \A n \in DOMAIN s.entries : s.entries[n].epoch < all[m].epoch
    BY <1>1, <1>6, <1>10
  <2>2. IsExtended(p.entries, s.entries, e)
    <3>. HIDE DEF m
    <3>. QED  BY <1>1, <1>2, <1>5, <2>1, BettingKeeps
  <2>3. e.epoch = round.epoch /\ e.placedAt = now
    BY <1>10, Zenon DEF IsBetting
  <2>4. e.epoch = Last(all).epoch /\ Last(all).epoch \in Nat /\ now \in Int
        /\ \A n \in DOMAIN s.entries : s.entries[n].epoch < Last(all).epoch
    BY <1>2, <1>3, <1>6, <2>3 DEF round
  <2>. QED  BY <1>5, <1>7, <1>10, <2>2, <2>3, <2>4, BettingKeepsLadder
<1>11. LadderKept(p.entries, cfg.params, now)
  BY <1>7, <1>8, <1>9, <1>10
<1>. QED  BY <1>11 DEF p, now, round

\* The time of the next decision is not before the bets of a ladder.
LaddersKept == \A k \in RecoveryKeys : LadderKept(sims[k].entries, Specs[k].params, TimeOf(k))

LadderInv == ReplayInv /\ LaddersKept

LEMMA LadderInit == Init => LadderInv
<1>. SUFFICES ASSUME Init PROVE LadderInv
  OBVIOUS
<1>1. \A k \in Keys : sims[k].entries = << >>
  BY NewSimKept DEF Init
<1>2. LaddersKept
  BY <1>1 DEF LaddersKept, LadderKept, RecoveryKeys
<1>. QED  BY <1>2, ReplayInit DEF LadderInv, LaddersKept

\* A ladder that has not bet is kept whenever it bets first.
LEMMA LadderWithoutBets ==
  ASSUME NEW p, NEW t
  PROVE  LadderKept(<< >>, p, t)
  BY DEF LadderKept

LEMMA LadderNext == LadderInv /\ [Next]_vars => LadderInv'
<1>. SUFFICES ASSUME LadderInv, [Next]_vars PROVE LadderInv'
  OBVIOUS
<1>1. ReplayInv /\ ReplayInv'
  BY ReplayNext DEF LadderInv, LaddersKept
<1>2. ASSUME NEW shape \in Shapes, Step(shape)
      PROVE  LaddersKept'
  <2>. DEFINE all == AllAfter(shape)
  <2>1. /\ rounds' = all /\ market' = market /\ ~finished /\ ~finished'
        /\ sims' = [k \in Keys |-> SimAfter(k, shape)] /\ Len(past) + 1 <= MaxRounds
    BY <1>2, StepIs
  <2>2. IsRounds(market, all) /\ IsRounds(market, rounds) /\ RoundsInv /\ BaseInv
    BY <1>1, RoundsStep DEF ReplayInv, AllKept, BaseInv, RoundsInv
  <2>3. /\ \A n \in DOMAIN rounds : n \in DOMAIN all /\ all[n] = rounds[n]
        /\ all # rounds => all # << >> /\ Last(all).epoch = Len(past) + 1
    BY <2>2, AllAfterIsMore
  <2>4. all # rounds => \A n \in DOMAIN rounds : rounds[n].epoch < Last(all).epoch
    <3>1. all = rounds \/ \E r : /\ all = Append(rounds, r) /\ r.epoch = Len(past) + 1
                                 /\ \A n \in DOMAIN rounds : rounds[n].epoch < r.epoch
      BY <2>2, RoundsStep
    <3>. QED  BY <2>3, <3>1
  <2>5. Len(past) \in Nat /\ MaxRounds \in Nat
    BY <2>2, TimesAssumption DEF RoundsInv
  <2>. HIDE DEF all
  <2>. SUFFICES ASSUME NEW k \in RecoveryKeys
                PROVE  LadderKept(sims'[k].entries, Specs[k].params, DecisionTime(Specs[k], Last(all)))
    BY <2>1 DEF LaddersKept, TimeOf, RecoveryKeys
  <2>. DEFINE sim == sims[k] cfg == Specs[k] t0 == DecisionTime(cfg, Last(rounds))
              now == DecisionTime(cfg, Last(all))
  <2>6. k \in Keys /\ cfg.plugin = "sequence-recovery"
    BY DEF RecoveryKeys
  <2>7. Kept(market, sim, rounds, t0) /\ LadderKept(sim.entries, cfg.params, t0)
    BY <1>1, <2>1, <2>6 DEF ReplayInv, AllKept, TimeOf, LadderInv, LaddersKept
  <2>8. Kept(market, sim, all, t0)
    BY <2>2, <2>3, <2>7, KeptOnMore
  <2>9. ValidConfig(cfg) /\ cfg.plugin \in Plugins
    BY <2>6, SpecIsValid
  <2>10. CASE sims'[k] = sim /\ (all = rounds \/ sim.entries = << >>)
    BY <2>7, <2>10, LadderWithoutBets
  <2>11. ASSUME all # rounds, sim.entries # << >>
         PROVE  t0 \in Int /\ t0 <= now /\ Timed(Last(all))
    BY <1>1, <2>1, <2>6, <2>11, NextDecision DEF all
  <2>12. CASE all # rounds /\ Timed(Last(all))
    <3>1. sims'[k] = Evaluate(cfg, sim, all)
      BY <2>1, <2>6, <2>12 DEF SimAfter, all
    <3>2. all # << >> /\ Last(all).epoch <= MaxRounds
      BY <2>1, <2>3, <2>5, <2>12
    <3>3. \A n \in DOMAIN sim.entries : sim.entries[n].epoch < Last(all).epoch
      <4>1. \A n \in DOMAIN sim.entries : \E m \in DOMAIN rounds : rounds[m].epoch = sim.entries[n].epoch
        BY <2>7 DEF Kept, SimInv, Based, OnRounds
      <4>. QED  BY <4>1, <2>4, <2>12
    <3>4. sim.entries # << >> => t0 \in Int /\ t0 <= now
      BY <2>11, <2>12
    <3>. HIDE DEF t0
    <3>5. LadderKept(Evaluate(cfg, sim, all).entries, cfg.params, DecisionTime(cfg, Last(all)))
      BY <2>2, <2>6, <2>7, <2>8, <2>9, <2>12, <3>2, <3>3, <3>4, EvaluateKeepsLadder
    <3>. QED  BY <3>1, <3>5
  <2>13. CASE all = rounds \/ ~Timed(Last(all))
    <3>1. sims'[k] = sim
      BY <2>1, <2>6, <2>13 DEF SimAfter, all
    <3>. QED  BY <3>1, <2>10, <2>11, <2>13
  <2>. QED  BY <2>12, <2>13
<1>3. ASSUME Finish PROVE LaddersKept'
  <2>1. /\ rounds' = rounds /\ ~finished /\ finished'
        /\ sims' = [k \in Keys |-> settleUpTo(sims[k], rounds, End)]
    BY <1>3 DEF Finish, End
  <2>. SUFFICES ASSUME NEW k \in RecoveryKeys
                PROVE  LadderKept(settleUpTo(sims[k], rounds, End).entries, Specs[k].params, End)
    BY <2>1 DEF LaddersKept, TimeOf, End, RecoveryKeys
  <2>. DEFINE sim == sims[k] cfg == Specs[k] t0 == DecisionTime(cfg, Last(rounds))
  <2>2. k \in Keys /\ cfg.plugin = "sequence-recovery"
    BY DEF RecoveryKeys
  <2>3. Kept(market, sim, rounds, t0) /\ LadderKept(sim.entries, cfg.params, t0)
    BY <1>1, <2>1, <2>2 DEF ReplayInv, AllKept, TimeOf, LadderInv, LaddersKept
  <2>4. IsRounds(market, rounds) /\ SimInv(market, sim, rounds) /\ UpTo(sim, rounds, t0) /\ IsSim(sim)
    BY <1>1, <2>3 DEF ReplayInv, AllKept, BaseInv, RoundsInv, Kept, SimInv, Based
  <2>5. ValidConfig(cfg)
    BY <2>2, SpecIsValid
  <2>6. CASE sim.entries = << >>
    <3>1. DOMAIN settleUpTo(sim, rounds, End).entries = DOMAIN sim.entries
      BY <2>4, SettlingKeepsEntries
    <3>. QED  BY <2>6, <3>1 DEF LadderKept
  <2>7. CASE sim.entries # << >>
    <3>1. cfg.params.maxRecoverySteps \in Nat \ {0}
      BY <2>2, <2>5, LadderBounds
    <3>2. t0 \in Int /\ End \in Int /\ t0 <= End
      BY <1>1, <2>2, <2>7, EndIsLater
    <3>. HIDE DEF t0
    <3>. QED  BY <2>3, <2>4, <3>1, <3>2, SettlingKeepsLadder
  <2>. QED  BY <2>6, <2>7
<1>4. ASSUME UNCHANGED vars PROVE LaddersKept'
  BY <1>4 DEF LadderInv, LaddersKept, TimeOf, End, vars, RecoveryKeys
<1>5. LaddersKept'
  BY <1>2, <1>3, <1>4 DEF Next
<1>. QED  BY <1>1, <1>5 DEF LadderInv, LaddersKept

\* An exhausted ladder never bets within its cooldown, as far back as the strategy is shown its own
\* trades, whatever settles meanwhile and for every configuration (recoveryStatus, OWN_TRADES_LOOKBACK).
THEOREM LaddersCoolDown == Spec => []CooldownKept
<1>1. LadderInv => CooldownKept
  BY DEF LadderInv, LaddersKept, LadderKept, CooldownKept, KeepsCooldown
<1>. QED  BY LadderInit, LadderNext, <1>1, PTL DEF Spec

-----------------------------------------------------------------------------
\* The folds of a walk-forward validation (WalkForward).

\* Every plugin that validates looks back at a whole number of rounds.
LEMMA LookbackTyped ==
  ASSUME NEW cfg, ValidConfig(cfg)
  PROVE  lookback(cfg.plugin, cfg.params) \in Int
<1>. DEFINE plugin == cfg.plugin p == cfg.params
<1>1. DOMAIN p = DOMAIN paramSpecs(plugin) /\ \A k \in DOMAIN p : p[k] \in paramSpecs(plugin)[k]
  BY DEF ValidConfig, validateParams
<1>. HIDE DEF plugin, p
<1>2. CASE plugin = "momentum"
  <2>1. paramSpecs(plugin) = momentumParams
    BY <1>2, Zenon DEF paramSpecs
  <2>2. p["window"] \in Int
    BY <1>1, <2>1 DEF momentumParams
  <2>3. lookback(plugin, p) = p.window + 10
    BY <1>2, Zenon DEF lookback
  <2>. QED  BY <2>2, <2>3 DEF plugin, p
<1>3. CASE plugin = "streak-reversal"
  <2>1. paramSpecs(plugin) = streakReversalParams
    BY <1>3, Zenon DEF paramSpecs
  <2>2. p["streak"] \in Int
    BY <1>1, <2>1 DEF streakReversalParams
  <2>3. lookback(plugin, p) = p.streak + 20
    BY <1>3, Zenon DEF lookback
  <2>. QED  BY <2>2, <2>3 DEF plugin, p
<1>4. CASE plugin = "persistence"
  <2>1. paramSpecs(plugin) = persistenceParams
    BY <1>4, Zenon DEF paramSpecs
  <2>2. p["order"] \in Int
    BY <1>1, <2>1 DEF persistenceParams, OrderedParams
  <2>. DEFINE n == p.order * 100
  <2>. DEFINE least == 300
  <2>3. lookback(plugin, p) = Max({least, n})
    BY <1>4, Zenon DEF lookback
  <2>4. least \in Int /\ n \in Int
    BY <2>2
  <2>. HIDE DEF n, least
  <2>5. Max({least, n}) \in {least, n}
    BY <2>4, MaxOfTwo, Zenon
  <2>. QED  BY <2>3, <2>4, <2>5 DEF plugin, p
<1>5. CASE plugin = "markov"
  <2>1. paramSpecs(plugin) = markovParams
    BY <1>5, Zenon DEF paramSpecs
  <2>2. p["order"] \in 1 .. 6
    BY <1>1, <2>1 DEF markovParams, OrderedParams
  <2>. DEFINE n == 2 ^ (p.order + 4)
  <2>. DEFINE least == 500
  <2>3. lookback(plugin, p) = Max({least, n})
    BY <1>5, Zenon DEF lookback
  <2>4. least \in Int /\ n \in Int
    <3>1. p.order + 4 \in {5, 6, 7, 8, 9, 10}
      BY <2>2
    <3>2. 2 ^ 5 \in Int /\ 2 ^ 6 \in Int /\ 2 ^ 7 \in Int /\ 2 ^ 8 \in Int /\ 2 ^ 9 \in Int /\ 2 ^ 10 \in Int
      OBVIOUS
    <3>. QED  BY <3>1, <3>2
  <2>. HIDE DEF n, least
  <2>5. Max({least, n}) \in {least, n}
    BY <2>4, MaxOfTwo, Zenon
  <2>. QED  BY <2>3, <2>4, <2>5 DEF plugin, p
<1>6. CASE plugin = "sequence-recovery"
  <2>1. paramSpecs(plugin) = sequenceRecoveryParams
    BY <1>6, Zenon DEF paramSpecs
  <2>2. p["requiredPreviousStreak"] \in Int /\ p["confirmationCount"] \in Int
    BY <1>1, <2>1 DEF sequenceRecoveryParams
  <2>. DEFINE n == p.requiredPreviousStreak + p.confirmationCount + 20
  <2>. DEFINE least == 100
  <2>3. lookback(plugin, p) = Max({least, n})
    BY <1>6, Zenon DEF lookback
  <2>4. least \in Int /\ n \in Int
    BY <2>2
  <2>. HIDE DEF n, least
  <2>5. Max({least, n}) \in {least, n}
    BY <2>4, MaxOfTwo, Zenon
  <2>. QED  BY <2>3, <2>4, <2>5 DEF plugin, p
<1>7. CASE plugin \in {"follow-last-winner", "manual"}
  <2>1. lookback(plugin, p) \in {10, 1}
    BY <1>7, Zenon DEF lookback
  <2>. QED  BY <2>1 DEF plugin, p
<1>8. CASE plugin \notin {"follow-last-winner", "momentum", "streak-reversal", "manual", "persistence", "markov", "sequence-recovery"}
  <2>1. lookback(plugin, p) = 500
    BY <1>8, Zenon DEF lookback
  <2>. QED  BY <2>1 DEF plugin, p
<1>. QED  BY <1>2, <1>3, <1>4, <1>5, <1>6, <1>7, <1>8

\* The history before a window is a whole number of rounds, at any grid.
LEMMA WarmTyped == Warm \in Nat
<1>. DEFINE I == DOMAIN Candidates
            back == [c \in I |-> lookbackFor(Candidates[c])]
            B == {back[c] : c \in I}
<1>1. ASSUME NEW c \in I
      PROVE  lookbackFor(Candidates[c]) \in Nat
  <2>. DEFINE l == lookback(Candidates[c].plugin, Candidates[c].params)
              most == 10000
              low == Min({most, l})
  <2>1. most \in Int /\ l \in Int
    BY CandidatesAssumption, LookbackTyped
  <2>. HIDE DEF l, most
  <2>2. low \in Int /\ 1 \in Int
    <3>1. low \in {most, l}
      BY <2>1, MinOfTwo, Zenon
    <3>. QED  BY <2>1, <3>1
  <2>. HIDE DEF low
  <2>3. Max({1, low}) \in {1, low} /\ 1 <= Max({1, low})
    BY <2>2, MaxOfTwo, Zenon
  <2>4. Max({1, low}) \in Nat
    BY <2>2, <2>3
  <2>. QED  BY <2>4 DEF lookbackFor, low, most, l
<1>2. B = {lookbackFor(Candidates[c]) : c \in DOMAIN Candidates}
  OBVIOUS
<1>3. \A c \in I : back[c] \in Nat
  BY <1>1
<1>4. IsFiniteSet(I) /\ I # {}
  <2>1. I = 1 .. Len(Candidates) /\ 1 \in Int /\ Len(Candidates) \in Int /\ Len(Candidates) >= 1
    BY CandidatesAssumption
  <2>2. IsFiniteSet(1 .. Len(Candidates))
    BY <2>1, FS_Interval
  <2>. QED  BY <2>1, <2>2
<1>. HIDE DEF I, back
<1>5. IsFiniteSet(B)
  BY <1>4, ImageIsFinite
<1>6. B \in SUBSET Nat /\ B # {}
  BY <1>3, <1>4
<1>7. Max(B) \in Nat
  <2>1. B \in SUBSET Int
    BY <1>6
  <2>. HIDE DEF B
  <2>2. Max(B) \in B
    BY <1>5, <1>6, <2>1, MaxIs
  <2>. QED  BY <1>6, <2>2
<1>. QED  BY <1>2, <1>7 DEF Warm

\* From 0 up to L, step by step.
LEMMA UpTo0 ==
  ASSUME NEW L \in Nat, NEW S, 0 \in S, \A n \in 1 .. L : n - 1 \in S => n \in S
  PROVE  \A n \in 0 .. L : n \in S
<1>. DEFINE Bad == (0 .. L) \ S
<1>1. SUFFICES ASSUME Bad # {} PROVE FALSE
  OBVIOUS
<1>2. Bad \in SUBSET Int /\ IsFiniteSet(Bad)
  <2>1. IsFiniteSet(0 .. L)
    BY FS_Interval
  <2>. QED  BY <2>1, FS_Subset
<1>. DEFINE n == Min(Bad)
<1>3. n \in Bad /\ \A x \in Bad : n <= x
  <2>. HIDE DEF Bad
  <2>. QED  BY <1>1, <1>2, MinIs
<1>. HIDE DEF n
<1>4. n \in 1 .. L
  BY <1>3
<1>5. n - 1 \notin Bad
  BY <1>3, <1>4
<1>6. n - 1 \in S
  BY <1>4, <1>5
<1>. QED  BY <1>3, <1>4, <1>6

\* What the n-th round of a window makes of a simulation.
Replayed(cfg, window, history, sim, n) ==
  IF n <= history THEN NewSim
  ELSE IF Timed(window[n]) THEN Evaluate(cfg, sim[n - 1], SubSeq(window, 1, n)) ELSE sim[n - 1]

\* It is what the rounds of the window make of it, one after the other.
IsReplay(sim, cfg, window, history) ==
  \A n \in 0 .. Len(window) : sim[n] = Replayed(cfg, window, history, sim, n)

\* The replay of a window exists, round by round.
LEMMA SimulatedIs ==
  ASSUME NEW cfg, NEW window, Len(window) \in Nat, NEW history \in Nat
  PROVE  \E sim : IsReplay(sim, cfg, window, history) /\ Simulated(cfg, window, history) = sim[Len(window)]
<1>. DEFINE L == Len(window)
            Upto(g, n) == DOMAIN g = 0 .. n /\ \A k \in 0 .. n : g[k] = Replayed(cfg, window, history, g, k)
            S == {n \in 0 .. L : \E g : Upto(g, n)}
<1>1. 0 \in S
  <2>. DEFINE g == [k \in 0 .. 0 |-> NewSim]
  <2>1. DOMAIN g = 0 .. 0 /\ \A k \in 0 .. 0 : g[k] = NewSim
    OBVIOUS
  <2>. HIDE DEF g
  <2>2. \A k \in 0 .. 0 : Replayed(cfg, window, history, g, k) = NewSim
    BY DEF Replayed
  <2>3. Upto(g, 0)
    BY <2>1, <2>2
  <2>. HIDE DEF Upto
  <2>. QED  BY <2>3
<1>2. ASSUME NEW n \in 1 .. L, n - 1 \in S PROVE n \in S
  <2>1. PICK g : Upto(g, n - 1)
    BY <1>2
  <2>. DEFINE last == Replayed(cfg, window, history, g, n)
              h == [k \in 0 .. n |-> IF k = n THEN last ELSE g[k]]
  <2>2. DOMAIN h = 0 .. n /\ h[n] = last /\ \A k \in 0 .. n - 1 : h[k] = g[k]
    OBVIOUS
  <2>. HIDE DEF h
  <2>3. ASSUME NEW k \in 0 .. n PROVE Replayed(cfg, window, history, h, k) = Replayed(cfg, window, history, g, k)
    <3>1. CASE k <= history
      BY <3>1 DEF Replayed
    <3>2. CASE ~(k <= history)
      <4>1. k - 1 \in 0 .. n - 1
        BY <3>2
      <4>2. h[k - 1] = g[k - 1]
        BY <2>2, <4>1
      <4>. QED  BY <3>2, <4>2, Zenon DEF Replayed
    <3>. QED  BY <3>1, <3>2
  <2>4. ASSUME NEW k \in 0 .. n PROVE h[k] = Replayed(cfg, window, history, h, k)
    <3>1. CASE k = n
      BY <2>2, <2>3, <3>1
    <3>2. CASE k # n
      <4>1. k \in 0 .. n - 1
        BY <3>2
      <4>2. h[k] = g[k] /\ g[k] = Replayed(cfg, window, history, g, k)
        BY <2>1, <2>2, <4>1
      <4>. QED  BY <2>3, <4>2
    <3>. QED  BY <3>1, <3>2
  <2>5. Upto(h, n)
    BY <2>2, <2>4
  <2>. HIDE DEF Upto
  <2>. QED  BY <2>5
<1>3. L \in S
  <2>. HIDE DEF S
  <2>1. \A n \in 0 .. L : n \in S
    BY <1>1, <1>2, UpTo0
  <2>. QED  BY <2>1
<1>4. PICK g : Upto(g, L)
  BY <1>3
<1>. DEFINE Solves(f) == f = [n \in 0 .. Len(window) |->
                               IF n <= history THEN NewSim
                               ELSE IF Timed(window[n]) THEN Evaluate(cfg, f[n - 1], SubSeq(window, 1, n)) ELSE f[n - 1]]
            sim == CHOOSE f : Solves(f)
<1>5. Solves(g)
  <2>1. [n \in 0 .. L |-> Replayed(cfg, window, history, g, n)] = g
    <3>1. g = [n \in 0 .. L |-> g[n]]
      BY <1>4
    <3>. QED  BY <1>4, <3>1
  <2>. QED  BY <2>1, Zenon DEF Replayed
<1>6. Solves(sim)
  <2>. HIDE DEF Solves
  <2>. QED  BY <1>5
<1>7. Simulated(cfg, window, history) = sim[Len(window)]
  BY Zenon DEF Simulated
<1>. HIDE DEF sim
<1>8. IsReplay(sim, cfg, window, history)
  <2>1. sim = [n \in 0 .. Len(window) |-> Replayed(cfg, window, history, sim, n)]
    BY <1>6, Zenon DEF Replayed
  <2>. QED  BY <2>1, Zenon DEF IsReplay
<1>. QED  BY <1>7, <1>8

\* Windows that differ in what became of their last round.

\* No two rounds of one epoch.
Apart(all) == \A j, k \in DOMAIN all : all[j].epoch = all[k].epoch => j = k

\* The same rounds, the last of them at the same times.
AllButLast(a, b) ==
  /\ a \in Seq(Range(a)) /\ b \in Seq(Range(b)) /\ Len(a) = Len(b) /\ Len(a) \in Nat \ {0}
  /\ \A n \in 1 .. Len(a) - 1 : a[n] = b[n]
  /\ a[Len(a)].epoch = b[Len(a)].epoch /\ a[Len(a)].startTime = b[Len(a)].startTime
  /\ a[Len(a)].lockTime = b[Len(a)].lockTime
  /\ Timed(a[Len(a)]) /\ Timed(b[Len(a)])
  /\ Apart(a)

\* A round is found by its epoch.
LEMMA RoundAtApart ==
  ASSUME NEW all, Apart(all), NEW j \in DOMAIN all
  PROVE  RoundAt(all, all[j].epoch) = all[j]
<1>. DEFINE n == CHOOSE k \in DOMAIN all : all[k].epoch = all[j].epoch
<1>1. n \in DOMAIN all /\ all[n].epoch = all[j].epoch
  OBVIOUS
<1>. HIDE DEF n
<1>2. n = j
  BY <1>1 DEF Apart
<1>. QED  BY <1>2 DEF RoundAt, n

\* The bets are on the rounds before the last.
EarlierBets(sim, all) == \A n \in DOMAIN sim.entries : \E m \in 1 .. Len(all) - 1 : all[m].epoch = sim.entries[n].epoch

\* What becomes of the last round changes neither what is settled nor what is bet on it.
LEMMA LastRoundUnseen ==
  ASSUME NEW cfg, NEW a, NEW b, AllButLast(a, b), NEW sim, EarlierBets(sim, a)
  PROVE  Evaluate(cfg, sim, b) = Evaluate(cfg, sim, a)
<1>. DEFINE L == Len(a)
<1>1. /\ L \in Nat \ {0} /\ Len(b) = L /\ DOMAIN a = 1 .. L /\ DOMAIN b = 1 .. L /\ a # << >> /\ b # << >>
      /\ \A n \in 1 .. L - 1 : a[n] = b[n]
  BY DEF AllButLast
<1>2. a \in Seq(Range(a)) /\ b \in Seq(Range(b))
  BY DEF AllButLast
<1>3. Last(a) = a[L] /\ Last(b) = b[L]
  BY <1>1, <1>2, LastOf
<1>4. Front(a) = Front(b)
  <2>1. /\ DOMAIN Front(a) = 1 .. L - 1 /\ \A n \in 1 .. L - 1 : Front(a)[n] = a[n]
    BY <1>1, <1>2, LastOf
  <2>2. /\ DOMAIN Front(b) = 1 .. L - 1 /\ \A n \in 1 .. L - 1 : Front(b)[n] = b[n]
    BY <1>1, <1>2, LastOf
  <2>3. Front(a) = SubSeq(a, 1, L - 1) /\ Front(b) = SubSeq(b, 1, L - 1)
    BY <1>1 DEF Front
  <2>4. Front(a) = [n \in 1 .. L - 1 |-> a[n]] /\ Front(b) = [n \in 1 .. L - 1 |-> b[n]]
    BY <1>1, <1>2, <2>3
  <2>. QED  BY <1>1, <2>4
<1>5. Last(a).epoch = Last(b).epoch /\ Last(a).startTime = Last(b).startTime /\ Last(a).lockTime = Last(b).lockTime
  BY <1>3 DEF AllButLast
<1>6. Apart(a) /\ Apart(b)
  <2>1. \A n \in 1 .. L : a[n].epoch = b[n].epoch
    BY <1>1 DEF AllButLast
  <2>. QED  BY <1>1, <2>1 DEF AllButLast, Apart
<1>7. ASSUME NEW n \in DOMAIN sim.entries
      PROVE  RoundAt(b, sim.entries[n].epoch) = RoundAt(a, sim.entries[n].epoch)
  <2>1. PICK m \in 1 .. L - 1 : a[m].epoch = sim.entries[n].epoch
    BY DEF EarlierBets
  <2>2. m \in DOMAIN a /\ m \in DOMAIN b /\ b[m] = a[m]
    BY <1>1
  <2>3. RoundAt(a, a[m].epoch) = a[m]
    BY <1>6, <2>2, RoundAtApart
  <2>4. RoundAt(b, b[m].epoch) = b[m]
    BY <1>6, <2>2, RoundAtApart
  <2>. QED  BY <2>1, <2>2, <2>3, <2>4, Zenon
<1>8. ASSUME NEW t
      PROVE  settleUpTo(sim, b, t) = settleUpTo(sim, a, t)
  <2>1. \A n \in Pending(sim) : n \in DOMAIN sim.entries
    BY DEF Pending
  <2>2. Due(sim, b, t) = Due(sim, a, t)
    BY <1>7, <2>1, Zenon DEF Due
  <2>3. SettledEntries(sim, b, t) = SettledEntries(sim, a, t)
    <3>1. ASSUME NEW n \in DOMAIN sim.entries
          PROVE  (IF n \in Due(sim, b, t) THEN Settled(sim.entries[n], RoundAt(b, sim.entries[n].epoch)) ELSE sim.entries[n])
                 = (IF n \in Due(sim, a, t) THEN Settled(sim.entries[n], RoundAt(a, sim.entries[n].epoch)) ELSE sim.entries[n])
      BY <1>7, <2>2, Zenon
    <3>. QED  BY <3>1, Zenon DEF SettledEntries
  <2>. QED  BY <2>2, <2>3, SettlingBooks, Zenon
<1>9. DecisionTime(cfg, Last(b)) = DecisionTime(cfg, Last(a))
  BY <1>5, Zenon DEF DecisionTime
<1>10. ASSUME NEW s, NEW now
       PROVE  DecisionAt(cfg, s, b, now) = DecisionAt(cfg, s, a, now)
  <2>1. ContextAt(cfg, s, b, now) = ContextAt(cfg, s, a, now)
    BY <1>4, <1>5, Zenon DEF ContextAt
  <2>2. RiskStateAt(s, Last(b), now) = RiskStateAt(s, Last(a), now)
    BY <1>5, Zenon DEF RiskStateAt
  <2>. QED  BY <2>1, <2>2, Zenon DEF DecisionAt
<1>11. ASSUME NEW s, NEW d, NEW now
       PROVE  Placed(s, d, Last(b), now) = Placed(s, d, Last(a), now)
  <2>1. Entry(d, Last(b), now) = Entry(d, Last(a), now)
    BY <1>5, Zenon DEF Entry
  <2>. QED  BY <2>1, Zenon DEF Placed
<1>. DEFINE now == DecisionTime(cfg, Last(a))
            s == settleUpTo(sim, a, now)
            d == DecisionAt(cfg, s, a, now)
<1>12. Evaluate(cfg, sim, a) = Placed(s, d, Last(a), now)
  BY Zenon DEF Evaluate
<1>13. Evaluate(cfg, sim, b) = Placed(s, d, Last(a), now)
  <2>1. Evaluate(cfg, sim, b)
          = Placed(settleUpTo(sim, b, DecisionTime(cfg, Last(b))),
                   DecisionAt(cfg, settleUpTo(sim, b, DecisionTime(cfg, Last(b))), b, DecisionTime(cfg, Last(b))),
                   Last(b), DecisionTime(cfg, Last(b)))
    BY Zenon DEF Evaluate
  <2>. HIDE DEF now, s, d
  <2>2. DecisionTime(cfg, Last(b)) = now /\ settleUpTo(sim, b, now) = s
    BY <1>8, <1>9, Zenon DEF now, s
  <2>3. DecisionAt(cfg, s, b, now) = d
    BY <1>10, Zenon DEF d
  <2>4. Placed(s, d, Last(b), now) = Placed(s, d, Last(a), now)
    BY <1>11, Zenon
  <2>. QED  BY <2>1, <2>2, <2>3, <2>4, Zenon
<1>. QED  BY <1>12, <1>13, Zenon

\* The first n rounds of a window.
LEMMA FirstRounds ==
  ASSUME NEW w, w \in Seq(Range(w)), NEW n \in 1 .. Len(w)
  PROVE  LET s == SubSeq(w, 1, n) IN
         /\ s \in Seq(Range(s)) /\ Len(s) = n /\ DOMAIN s = 1 .. n /\ s # << >>
         /\ \A k \in 1 .. n : s[k] = w[k]
<1>. DEFINE s == SubSeq(w, 1, n)
<1>1. Len(s) = n /\ DOMAIN s = 1 .. n /\ \A k \in 1 .. n : s[k] = w[k]
  OBVIOUS
<1>2. s \in Seq(Range(w))
  OBVIOUS
<1>. HIDE DEF s
<1>3. s \in Seq(Range(s)) /\ s # << >>
  BY <1>1, <1>2, IsSequence
<1>. QED  BY <1>1, <1>3 DEF s

\* A replay of a window bets on its rounds.
LEMMA ReplayBased ==
  ASSUME NEW cfg, NEW w, w \in Seq(Range(w)), NEW history \in Nat, NEW sim, IsReplay(sim, cfg, w, history)
  PROVE  \A n \in 0 .. Len(w) : Based(sim[n], SubSeq(w, 1, n))
<1>. DEFINE L == Len(w)
            S == {n \in 0 .. L : Based(sim[n], SubSeq(w, 1, n))}
<1>1. L \in Nat
  OBVIOUS
<1>2. \A n \in 0 .. L : sim[n] = Replayed(cfg, w, history, sim, n)
  BY DEF IsReplay
<1>3. 0 \in S
  <2>1. sim[0] = NewSim
    BY <1>1, <1>2 DEF Replayed
  <2>. QED  BY <1>1, <2>1, NewSimBased
<1>4. ASSUME NEW n \in 1 .. L, n - 1 \in S PROVE n \in S
  <2>. DEFINE prev == SubSeq(w, 1, n - 1) all == SubSeq(w, 1, n)
  <2>0. n \in 0 .. L /\ n - 1 \in 0 .. L
    BY <1>1
  <2>1. Based(sim[n - 1], prev)
    BY <1>4
  <2>2. all \in Seq(Range(all)) /\ DOMAIN all = 1 .. n /\ all # << >> /\ \A k \in 1 .. n : all[k] = w[k]
    BY FirstRounds
  <2>3. \A k \in DOMAIN prev : k \in DOMAIN all /\ all[k] = prev[k]
    <3>1. DOMAIN prev = 1 .. n - 1 /\ \A k \in 1 .. n - 1 : prev[k] = w[k]
      BY <1>1
    <3>. HIDE DEF prev, all
    <3>. QED  BY <2>2, <3>1
  <2>. HIDE DEF prev, all
  <2>4. Based(sim[n - 1], all)
    BY <2>1, <2>3, BasedOnMore
  <2>5. Based(Evaluate(cfg, sim[n - 1], all), all)
    BY <2>2, <2>4, EvaluateBased
  <2>6. Based(NewSim, all)
    BY NewSimBased
  <2>7. sim[n] = IF n <= history THEN NewSim
                 ELSE IF Timed(w[n]) THEN Evaluate(cfg, sim[n - 1], all) ELSE sim[n - 1]
    BY <1>2, <2>0, Zenon DEF Replayed, all
  <2>8. Based(sim[n], all)
    BY <2>4, <2>5, <2>6, <2>7
  <2>. QED  BY <2>0, <2>8 DEF all
<1>. HIDE DEF S
<1>5. \A n \in 0 .. L : n \in S
  BY <1>1, <1>3, <1>4, UpTo0
<1>. QED  BY <1>5 DEF S

\* Two replays of such windows are the same.
LEMMA ReplaysAgree ==
  ASSUME NEW cfg, NEW a, NEW b, AllButLast(a, b), NEW history \in Nat
  PROVE  IsSim(Simulated(cfg, a, history)) /\ Simulated(cfg, b, history) = Simulated(cfg, a, history)
<1>. DEFINE L == Len(a)
<1>1. /\ L \in Nat \ {0} /\ Len(b) = L /\ a \in Seq(Range(a)) /\ b \in Seq(Range(b))
      /\ \A n \in 1 .. L - 1 : a[n] = b[n]
  BY DEF AllButLast
<1>2. PICK sa : IsReplay(sa, cfg, a, history) /\ Simulated(cfg, a, history) = sa[L]
  BY <1>1, SimulatedIs
<1>3. PICK sb : IsReplay(sb, cfg, b, history) /\ Simulated(cfg, b, history) = sb[L]
  BY <1>1, SimulatedIs
<1>4. /\ \A n \in 0 .. L : sa[n] = Replayed(cfg, a, history, sa, n)
      /\ \A n \in 0 .. L : sb[n] = Replayed(cfg, b, history, sb, n)
  BY <1>1, <1>2, <1>3 DEF IsReplay
<1>5. \A n \in 0 .. L : Based(sa[n], SubSeq(a, 1, n))
  BY <1>1, <1>2, ReplayBased
<1>. DEFINE S == {n \in 0 .. L - 1 : sa[n] = sb[n]}
<1>6. 0 \in S
  <2>1. sa[0] = NewSim /\ sb[0] = NewSim
    BY <1>1, <1>4 DEF Replayed
  <2>. QED  BY <1>1, <2>1
<1>7. ASSUME NEW n \in 1 .. L - 1, n - 1 \in S PROVE n \in S
  <2>1. n \in 0 .. L /\ n \in 0 .. L - 1 /\ sa[n - 1] = sb[n - 1] /\ a[n] = b[n]
    BY <1>1, <1>7
  <2>2. SubSeq(a, 1, n) = SubSeq(b, 1, n)
    <3>1. SubSeq(a, 1, n) = [k \in 1 .. n |-> a[k]] /\ SubSeq(b, 1, n) = [k \in 1 .. n |-> b[k]]
      BY <1>1
    <3>2. \A k \in 1 .. n : a[k] = b[k]
      BY <1>1
    <3>. QED  BY <3>1, <3>2
  <2>3. Replayed(cfg, a, history, sa, n) = Replayed(cfg, b, history, sb, n)
    BY <2>1, <2>2, Zenon DEF Replayed
  <2>. QED  BY <1>4, <2>1, <2>3
<1>8. sa[L - 1] = sb[L - 1]
  <2>1. L - 1 \in Nat /\ L - 1 \in 0 .. L - 1
    BY <1>1
  <2>. HIDE DEF S
  <2>2. \A n \in 0 .. L - 1 : n \in S
    BY <1>6, <1>7, <2>1, UpTo0
  <2>. QED  BY <2>1, <2>2 DEF S
<1>9. SubSeq(a, 1, L) = a /\ SubSeq(b, 1, L) = b
  BY <1>1
<1>10. Evaluate(cfg, sa[L - 1], b) = Evaluate(cfg, sa[L - 1], a)
  <2>1. Based(sa[L - 1], SubSeq(a, 1, L - 1))
    BY <1>1, <1>5
  <2>2. DOMAIN SubSeq(a, 1, L - 1) = 1 .. L - 1 /\ \A k \in 1 .. L - 1 : SubSeq(a, 1, L - 1)[k] = a[k]
    BY <1>1
  <2>3. EarlierBets(sa[L - 1], a)
    BY <2>1, <2>2 DEF Based, OnRounds, EarlierBets
  <2>. QED  BY <2>3, LastRoundUnseen
<1>11. Timed(a[L]) /\ Timed(b[L])
  BY DEF AllButLast
<1>12. Replayed(cfg, a, history, sa, L) = Replayed(cfg, b, history, sb, L)
  BY <1>8, <1>9, <1>10, <1>11, Zenon DEF Replayed
<1>13. sa[L] = sb[L]
  BY <1>1, <1>4, <1>12
<1>14. IsSim(sa[L])
  BY <1>1, <1>5 DEF Based
<1>. QED  BY <1>2, <1>3, <1>13, <1>14

\* A window of the rounds.
LEMMA WindowIs ==
  ASSUME NEW all, all \in Seq(Range(all)), NEW first \in 1 .. Len(all), NEW to \in first .. Len(all)
  PROVE  LET w == SubSeq(all, first, to) IN
         /\ w \in Seq(Range(w)) /\ Len(w) = to - first + 1 /\ DOMAIN w = 1 .. to - first + 1
         /\ w = [n \in 1 .. to - first + 1 |-> all[first + n - 1]]
<1>. DEFINE w == SubSeq(all, first, to)
<1>0. Len(all) \in Nat
  OBVIOUS
<1>1. w = [n \in 1 .. to - first + 1 |-> all[first + n - 1]] /\ Len(w) = to - first + 1
  OBVIOUS
<1>2. w \in Seq(Range(all))
  BY <1>0
<1>. HIDE DEF w
<1>3. w \in Seq(Range(w)) /\ DOMAIN w = 1 .. Len(w)
  BY <1>2, IsSequence
<1>. QED  BY <1>1, <1>3 DEF w

\* Where the warm-up of a window begins.
LEMMA WarmupIs ==
  ASSUME NEW from \in Nat \ {0}
  PROVE  Max({1, from - Warm}) \in 1 .. from
<1>. DEFINE x == from - Warm
<1>1. x \in Int /\ x <= from /\ 1 \in Int
  BY WarmTyped
<1>. HIDE DEF x
<1>2. Max({1, x}) \in {1, x} /\ 1 <= Max({1, x})
  BY <1>1, MaxOfTwo, Zenon
<1>. QED  BY <1>1, <1>2 DEF x

\* What is bet in a test window does not depend on what became of its last round.
LEMMA TestedUnseen ==
  ASSUME NEW all, NEW other, AllButLast(all, other), NEW cfg, NEW from \in 1 .. Len(all)
  PROVE  Bets(Replay(cfg, other, from, Len(all)).entries) = Bets(Replay(cfg, all, from, Len(all)).entries)
<1>. DEFINE L == Len(all)
            first == Max({1, from - Warm})
            history == from - first
            a == SubSeq(all, first, L)
            b == SubSeq(other, first, L)
            ends(w) == (Last(w).epoch + 2) * Interval + BufferSeconds
<1>1. /\ L \in Nat \ {0} /\ Len(other) = L /\ all \in Seq(Range(all)) /\ other \in Seq(Range(other))
      /\ \A n \in 1 .. L - 1 : all[n] = other[n]
      /\ all[L].epoch = other[L].epoch /\ all[L].startTime = other[L].startTime
      /\ all[L].lockTime = other[L].lockTime /\ Timed(all[L]) /\ Timed(other[L]) /\ Apart(all)
  BY DEF AllButLast
<1>2. first \in 1 .. from
  BY <1>1, WarmupIs
<1>. HIDE DEF first
<1>3. first \in 1 .. L /\ L \in first .. L /\ history \in Nat
  BY <1>1, <1>2
<1>4. /\ a \in Seq(Range(a)) /\ Len(a) = L - first + 1 /\ DOMAIN a = 1 .. L - first + 1
      /\ a = [n \in 1 .. L - first + 1 |-> all[first + n - 1]]
  BY <1>1, <1>3, WindowIs
<1>5. /\ b \in Seq(Range(b)) /\ Len(b) = L - first + 1 /\ DOMAIN b = 1 .. L - first + 1
      /\ b = [n \in 1 .. L - first + 1 |-> other[first + n - 1]]
  BY <1>1, <1>3, WindowIs
<1>. HIDE DEF a, b
<1>6. a[Len(a)] = all[L] /\ b[Len(b)] = other[L] /\ Len(a) \in Nat \ {0}
  BY <1>1, <1>3, <1>4, <1>5
<1>7. ASSUME NEW n \in 1 .. Len(a) - 1 PROVE a[n] = b[n]
  <2>1. first + n - 1 \in 1 .. L - 1 /\ n \in 1 .. L - first + 1
    BY <1>1, <1>3, <1>4
  <2>. QED  BY <1>1, <1>4, <1>5, <2>1
<1>8. Apart(a)
  <2>1. ASSUME NEW j \in DOMAIN a, NEW k \in DOMAIN a, a[j].epoch = a[k].epoch PROVE j = k
    <3>1. first + j - 1 \in DOMAIN all /\ first + k - 1 \in DOMAIN all /\ j \in Int /\ k \in Int /\ first \in Int
      BY <1>1, <1>3, <1>4
    <3>2. a[j] = all[first + j - 1] /\ a[k] = all[first + k - 1]
      BY <1>4
    <3>3. first + j - 1 = first + k - 1
      BY <1>1, <2>1, <3>1, <3>2 DEF Apart
    <3>. QED  BY <3>1, <3>3
  <2>. QED  BY <2>1 DEF Apart
<1>9. AllButLast(a, b)
  BY <1>1, <1>4, <1>5, <1>6, <1>7, <1>8 DEF AllButLast
<1>10. ends(a) = ends(b)
  <2>1. a # << >> /\ b # << >>
    BY <1>4, <1>5, <1>6
  <2>2. Last(a) = a[Len(a)] /\ Last(b) = b[Len(b)]
    BY <1>4, <1>5, <2>1, LastOf
  <2>. QED  BY <1>1, <1>6, <2>2
<1>. DEFINE sim == Simulated(cfg, a, history)
<1>11. IsSim(sim) /\ Simulated(cfg, b, history) = sim
  BY <1>3, <1>9, ReplaysAgree
<1>. HIDE DEF sim
<1>12. ASSUME NEW w, NEW t PROVE Bets(settleUpTo(sim, w, t).entries) = Bets(sim.entries)
  <2>1. DOMAIN settleUpTo(sim, w, t).entries = DOMAIN sim.entries
        /\ \A n \in DOMAIN sim.entries :
             /\ settleUpTo(sim, w, t).entries[n].epoch = sim.entries[n].epoch
             /\ settleUpTo(sim, w, t).entries[n].direction = sim.entries[n].direction
             /\ settleUpTo(sim, w, t).entries[n].amount = sim.entries[n].amount
    BY <1>11, SettlingKeepsEntries
  <2>. QED  BY <2>1 DEF Bets
<1>13. Replay(cfg, all, from, L) = settleUpTo(sim, a, ends(a))
  BY Zenon DEF Replay, sim, first, a
<1>14. Replay(cfg, other, from, L) = settleUpTo(sim, b, ends(b))
  BY <1>11, Zenon DEF Replay, first, b
<1>. QED  BY <1>12, <1>13, <1>14

\* The candidate is chosen on earlier rounds.
LEMMA ChosenUnseen ==
  ASSUME NEW all, NEW other, AllButLast(all, other), NEW n \in Nat \ {0}, Fold(n).testTo = Len(all)
  PROVE  Chosen(other, n) = Chosen(all, n) /\ Fold(n).testFrom \in 1 .. Len(all)
<1>. DEFINE L == Len(all)
            before == n - 1
            start == before * StepRounds
            f == Fold(n)
<1>1. /\ L \in Nat \ {0} /\ Len(other) = L /\ all \in Seq(Range(all)) /\ other \in Seq(Range(other))
      /\ \A k \in 1 .. L - 1 : all[k] = other[k]
  BY DEF AllButLast
<1>2. start \in Nat
  <2>1. before \in Nat /\ StepRounds \in Nat
    BY WindowsAssumption
  <2>. HIDE DEF before
  <2>. QED  BY <2>1
<1>3. f = [trainFrom |-> IF Anchored THEN 1 ELSE start + 1, trainTo |-> start + TrainRounds,
           testFrom |-> start + TrainRounds + 1, testTo |-> start + TrainRounds + TestRounds]
  BY DEF Fold, TrainingEnd
<1>. HIDE DEF start, f
<1>4. /\ f.trainFrom \in Nat \ {0} /\ f.trainFrom \in 1 .. f.trainTo
      /\ f.trainTo \in 1 .. L - 1 /\ f.testFrom \in 1 .. L
  <2>1. start + TrainRounds + TestRounds = L
    BY <1>3 DEF f
  <2>2. TrainRounds \in Nat /\ TrainRounds >= 10 /\ TestRounds \in Nat \ {0}
    BY WindowsAssumption
  <2>3. CASE Anchored
    BY <1>1, <1>2, <1>3, <2>1, <2>2, <2>3
  <2>4. CASE ~Anchored
    BY <1>1, <1>2, <1>3, <2>1, <2>2, <2>4
  <2>. QED  BY <2>3, <2>4
<1>. DEFINE first == Max({1, f.trainFrom - Warm})
<1>5. first \in 1 .. f.trainFrom
  BY <1>4, WarmupIs
<1>6. SubSeq(other, first, f.trainTo) = SubSeq(all, first, f.trainTo)
  <2>. HIDE DEF first
  <2>. DEFINE to == f.trainTo
  <2>1. to \in 1 .. L - 1 /\ first \in 1 .. L /\ to \in first .. L
    BY <1>1, <1>4, <1>5
  <2>. HIDE DEF to
  <2>2. SubSeq(all, first, to) = [k \in 1 .. to - first + 1 |-> all[first + k - 1]]
    BY <1>1, <2>1, WindowIs
  <2>3. SubSeq(other, first, to) = [k \in 1 .. to - first + 1 |-> other[first + k - 1]]
    BY <1>1, <2>1, WindowIs
  <2>4. \A k \in 1 .. to - first + 1 : other[first + k - 1] = all[first + k - 1]
    BY <1>1, <2>1
  <2>5. SubSeq(other, first, to) = SubSeq(all, first, to)
    BY <2>2, <2>3, <2>4
  <2>. QED  BY <2>5 DEF to
<1>7. ASSUME NEW cfg PROVE Replay(cfg, other, f.trainFrom, f.trainTo) = Replay(cfg, all, f.trainFrom, f.trainTo)
  BY <1>6, Zenon DEF Replay, first
<1>8. Chosen(other, n) = Chosen(all, n)
  BY <1>7, Zenon DEF Chosen, f
<1>. QED  BY <1>4, <1>8 DEF f

\* What a fold adds to the record does not depend on what became of its last round.
LEMMA RecordUnseen ==
  ASSUME NEW all, NEW other, AllButLast(all, other), NEW n \in Nat \ {0}, Fold(n).testTo = Len(all)
  PROVE  Record(other, n) = Record(all, n)
<1>. DEFINE f == Fold(n)
            c == Chosen(all, n)
<1>1. Chosen(other, n) = c /\ f.testFrom \in 1 .. Len(all) /\ f.testTo = Len(all)
  BY ChosenUnseen
<1>. HIDE DEF f, c
<1>2. Bets(Replay(Candidates[c], other, f.testFrom, Len(all)).entries)
      = Bets(Replay(Candidates[c], all, f.testFrom, Len(all)).entries)
  BY <1>1, TestedUnseen
<1>3. Tested(other, f, c) = Tested(all, f, c)
  BY <1>1, <1>2, Zenon DEF Tested
<1>. QED  BY <1>1, <1>3, Zenon DEF Record, f, c

\* The last round with another result.
LEMMA OtherEnding ==
  ASSUME RoundsInv, rounds # << >>, Timed(Last(rounds)), NEW shape \in Shapes
  PROVE  AllButLast(rounds, Append(Front(rounds), FinalRound(rounds[Len(rounds)].epoch, shape)))
<1>. DEFINE L == Len(rounds)
            r == rounds[L]
            o == FinalRound(r.epoch, shape)
            front == Front(rounds)
            other == Append(front, o)
<1>1. /\ L \in Nat \ {0} /\ DOMAIN rounds = 1 .. L /\ Last(rounds) = r
      /\ DOMAIN front = 1 .. L - 1 /\ Len(front) = L - 1
      /\ \A n \in 1 .. L - 1 : front[n] = rounds[n]
  BY LastOf DEF RoundsInv, IsRounds
<1>2. /\ rounds \in Seq(Range(rounds)) /\ IsRound(market, r)
      /\ \A j, k \in DOMAIN rounds : j < k => rounds[j].epoch < rounds[k].epoch
      /\ \A n \in DOMAIN rounds : IsRound(market, rounds[n])
  BY <1>1 DEF RoundsInv, IsRounds
<1>3. market # "PANCAKESWAP_V1" /\ r.epoch \in Nat \ {0}
  BY <1>1, <1>2, TimedIn DEF IsRound
<1>4. Says("PANCAKESWAP_V2", o, r.epoch, shape)
  <2>1. IsShape(shape)
    BY ShapesAssumption
  <2>. HIDE DEF r, L
  <2>. QED  BY <1>3, <2>1, FinalSays
<1>5. front \in Seq(Range(front))
  <2>1. front = SubSeq(rounds, 1, L - 1)
    BY DEF Front
  <2>2. SubSeq(rounds, 1, L - 1) \in Seq(Range(rounds))
    BY <1>1, <1>2
  <2>. QED  BY <2>1, <2>2, IsSequence
<1>. HIDE DEF o, front
<1>6. /\ other \in Seq(Range(other)) /\ Len(other) = L /\ other[L] = o
      /\ \A n \in 1 .. L - 1 : other[n] = rounds[n]
  <2>1. /\ other \in Seq(Range(other)) /\ Len(other) = Len(front) + 1
        /\ other[Len(front) + 1] = o /\ \A n \in DOMAIN front : other[n] = front[n]
    BY <1>5, AppendedEntry
  <2>2. Len(front) + 1 = L
    BY <1>1
  <2>. HIDE DEF other, L
  <2>3. Len(other) = L /\ other[L] = o
    BY <2>1, <2>2
  <2>. QED  BY <1>1, <2>1, <2>3
<1>7. o.epoch = r.epoch /\ o.startTime = r.startTime /\ o.lockTime = r.lockTime /\ o.closeTime = r.closeTime
  <2>1. r.startTime = r.epoch * Interval /\ r.lockTime = (r.epoch + 1) * Interval
        /\ r.closeTime = (r.epoch + 2) * Interval
    BY <1>2, <1>3 DEF IsRound, TimeIn
  <2>. HIDE DEF r
  <2>. QED  BY <1>4, <2>1, Zenon DEF Says, TimeIn
<1>8. Timed(r) /\ Timed(o)
  BY <1>1, <1>7, Zenon DEF Timed
<1>9. Apart(rounds)
  <2>1. ASSUME NEW j \in DOMAIN rounds, NEW k \in DOMAIN rounds, rounds[j].epoch = rounds[k].epoch PROVE j = k
    <3>. DEFINE x == rounds[j].epoch y == rounds[k].epoch
    <3>1. x \in Nat /\ y \in Nat /\ (j < k => x < y) /\ (k < j => y < x) /\ j \in Int /\ k \in Int
      BY <1>1, <1>2 DEF IsRound
    <3>2. x = y
      BY <2>1
    <3>. HIDE DEF x, y
    <3>3. ~(j < k) /\ ~(k < j)
      BY <3>1, <3>2
    <3>. QED  BY <3>1, <3>3
  <2>. QED  BY <2>1 DEF Apart
<1>. HIDE DEF other
<1>10. AllButLast(rounds, other)
  BY <1>1, <1>2, <1>6, <1>7, <1>8, <1>9 DEF AllButLast
<1>. QED  BY <1>10 DEF other, o, r, L, front

\* The rounds of the replay are in the order of their epochs, so that this holds of their folds.
LEMMA UnseenFold ==
  ASSUME BaseInv
  PROVE  OutOfSample
<1>. DEFINE m == Len(rounds)
            Other(shape) == Append(Front(rounds), FinalRound(rounds[m].epoch, shape))
            others == {Other(shape) : shape \in Shapes}
<1>1. SUFFICES ASSUME m > TrainRounds, Timed(rounds[m]), NEW n \in Folds(rounds), Fold(n).testTo = m
               PROVE  Cardinality({Record(all, n) : all \in others \cup {rounds}}) = 1
  BY Zenon DEF OutOfSample
<1>2. RoundsInv /\ rounds \in Seq(Range(rounds)) /\ m \in Nat
  BY DEF BaseInv, RoundsInv, IsRounds
<1>3. rounds # << >> /\ Last(rounds) = rounds[m]
  <2>1. rounds # << >>
    BY <1>1, <1>2, WindowsAssumption
  <2>. QED  BY <1>2, <2>1, LastOf
<1>4. n \in Nat \ {0}
  BY <1>2 DEF Folds
<1>5. ASSUME NEW all \in others
      PROVE  Record(all, n) = Record(rounds, n)
  <2>1. PICK shape \in Shapes : all = Other(shape)
    BY Zenon
  <2>2. AllButLast(rounds, all)
    BY <1>1, <1>2, <1>3, <2>1, OtherEnding
  <2>. QED  BY <1>1, <1>4, <2>2, RecordUnseen
<1>. HIDE DEF others, Other
<1>6. {Record(all, n) : all \in others \cup {rounds}} = {Record(rounds, n)}
  BY <1>5, Zenon
<1>. QED  BY <1>6, FS_Singleton

\* The out-of-sample record is out of sample, for every market, grid of parameters, window and step,
\* anchored or rolling: no result of the last round of a test window changes which candidate its fold
\* has chosen or a bet it makes (walkForward.ts:2-4).
THEOREM FoldsAreOutOfSample == Spec => []OutOfSample
<1>. QED  BY BaseAlways, UnseenFold, PTL

-----------------------------------------------------------------------------
\* The processes that compute backtests and experiments, and the one that trades: any number of servers
\* and command lines, backtests and experiments, and any number of faults (Processes).

Phases == {"DOWN", "UP", "drain", "release", "close"}
Loops == {"look", "granted", "lost", "drain", "ended"}
RunRow == [status : {"NONE", "RUNNING", "DONE", "FAILED"}, age : 0 .. 2]
StudyRow == [status : {"REGISTERED", "RUNNING", "DONE", "FAILED"}, tested : Nat]

LeaseType ==
  /\ phase \in [Processes -> Phases]
  /\ session \in Processes \cup {"none", "ghost"}
  /\ leased \in [Processes -> BOOLEAN]
  /\ loop \in [Processes -> Loops]
  /\ work \in [Processes -> {"none", "recovering", "trading"}]
  /\ jobs \in [Processes -> SUBSET Jobs]
  /\ dropped \in [Processes -> BOOLEAN]

RunsType == runs \in [Backtests -> RunRow] /\ active \in [Processes -> Backtests \cup {"none"}]

StudiesType == studies \in [Experiments -> StudyRow] /\ studied \in [Processes -> Experiments \cup {"none"}]

-----------------------------------------------------------------------------
\* Backtests.

\* A run being computed is marked running, its heartbeat is fresh, and nobody else computes it.
Beaten(p) == active[p] # "none" => runs[active[p]].status = "RUNNING" /\ runs[active[p]].age < 2
OneRunner(p, q) == p # q /\ active[p] # "none" => active[p] # active[q]

RunsKept ==
  /\ RunsType
  /\ \A p \in Processes : Beaten(p)
  /\ \A p, q \in Processes : OneRunner(p, q)

RunsSame == UNCHANGED <<runs, active>>

LEMMA RunsInit == ProcessesInit => RunsKept
  BY DEF ProcessesInit, RunsKept, RunsType, RunRow, Beaten, OneRunner

\* Everything a step may do to the runs and who computes them.
RunsStep ==
  \/ RunsSame
  \/ Tick
  \/ runs' = [r \in Backtests |-> IF Interrupted(r) THEN [runs[r] EXCEPT !.status = "FAILED"] ELSE runs[r]]
     /\ UNCHANGED active
  \/ \E p \in Processes : \/ Progress(p) \/ EndRun(p)
                          \/ \E r \in Backtests : StartRun(p, r)
                          \/ active' = [active EXCEPT ![p] = "none"] /\ UNCHANGED runs

LEMMA StepOfRuns == [ProcessesNext]_processVars => RunsStep
<1>. SUFFICES ASSUME [ProcessesNext]_processVars PROVE RunsStep
  OBVIOUS
<1>1. CASE UNCHANGED processVars
  BY <1>1 DEF processVars, backtest, RunsStep, RunsSame
<1>2. CASE GhostTimesOut \/ Tick
  BY <1>2 DEF GhostTimesOut, backtest, RunsStep, RunsSame
<1>3. ASSUME NEW p \in Processes,
             Leasing(p) \/ StartRecovery(p) \/ LoopRuns(p) \/ Leaving(p) \/ Boot(p) \/ Studying(p)
      PROVE  RunsStep
  BY <1>3 DEF Leasing, Acquire, Granted, CheckFails, Lost, LoopDrained, LoopEnds, StartRecovery, LoopRuns,
     Leaving, Detach, DetachedEnds, Boot, Studying, FinishStudy, FailStudy, StartStudy, backtest, RunsStep, RunsSame
<1>4. ASSUME NEW p \in Processes, JobEnds(p)
      PROVE  RunsStep
  BY <1>4 DEF JobEnds, RecoverBacktests, RecoveryEnds, LoopReturns, backtest, RunsStep, RunsSame
<1>5. ASSUME NEW p \in Processes, Closing(p)
      PROVE  RunsStep
  BY <1>5 DEF Closing, StopDrained, Release, Exit, Gone, backtest, RunsStep, RunsSame
<1>6. ASSUME NEW p \in Processes, Failing(p)
      PROVE  RunsStep
  BY <1>6 DEF Failing, Stop, Crash, Gone, ConnectionDrops, CheckTimesOut, RecoveryThrows, backtest,
     RunsStep, RunsSame
<1>7. ASSUME NEW p \in Processes, Running(p)
      PROVE  RunsStep
  BY <1>7 DEF Running, RunsStep
<1>. QED  BY <1>1, <1>2, <1>3, <1>4, <1>5, <1>6, <1>7 DEF ProcessesNext

LEMMA RunsPreserved == RunsKept /\ RunsStep => RunsKept'
<1>. SUFFICES ASSUME RunsKept, RunsStep PROVE RunsKept'
  OBVIOUS
<1>. USE IdsAssumption DEF RunsKept, RunsType, RunRow
<1>1. CASE RunsSame
  BY <1>1 DEF RunsSame, Beaten, OneRunner
<1>2. CASE Tick
  <2>1. \A r \in Backtests : /\ runs'[r] \in RunRow
                             /\ runs'[r].status = runs[r].status
                             /\ runs[r].age = 0 => runs'[r].age = 1
    BY <1>2 DEF Tick
  <2>2. RunsType'
    BY <1>2, <2>1 DEF Tick
  <2>3. \A p \in Processes : Beaten(p)'
    BY <1>2, <2>1 DEF Tick, Beaten
  <2>4. \A p, q \in Processes : OneRunner(p, q)'
    BY <1>2 DEF Tick, OneRunner
  <2>. QED  BY <2>2, <2>3, <2>4
<1>3. CASE /\ runs' = [r \in Backtests |-> IF Interrupted(r) THEN [runs[r] EXCEPT !.status = "FAILED"] ELSE runs[r]]
           /\ UNCHANGED active
  <2>1. \A p \in Processes : active[p] # "none" => ~Interrupted(active[p])
    BY DEF Beaten, Interrupted
  <2>. QED  BY <1>3, <2>1 DEF Beaten, OneRunner
<1>4. ASSUME NEW p \in Processes, Progress(p)
      PROVE  RunsKept'
  BY <1>4 DEF Progress, Beaten, OneRunner
<1>5. ASSUME NEW p \in Processes, EndRun(p)
      PROVE  RunsKept'
  BY <1>5 DEF EndRun, Beaten, OneRunner
<1>6. ASSUME NEW p \in Processes, NEW r \in Backtests, StartRun(p, r)
      PROVE  RunsKept'
  <2>1. \A q \in Processes : active[q] # r
    BY <1>6 DEF StartRun, Beaten
  <2>. QED  BY <1>6, <2>1 DEF StartRun, Beaten, OneRunner
<1>7. ASSUME NEW p \in Processes, active' = [active EXCEPT ![p] = "none"], UNCHANGED runs
      PROVE  RunsKept'
  BY <1>7 DEF Beaten, OneRunner
<1>. QED  BY <1>1, <1>2, <1>3, <1>4, <1>5, <1>6, <1>7 DEF RunsStep

\* No recovery, start or shutdown fails a backtest that a process is computing.
THEOREM BacktestsKept == ProcessesSpec => []LiveRunsKept
<1>1. RunsKept /\ [ProcessesNext]_processVars => RunsKept'
  BY StepOfRuns, RunsPreserved
<1>2. RunsKept => LiveRunsKept
  BY DEF RunsKept, LiveRunsKept, Beaten
<1>. QED  BY RunsInit, <1>1, <1>2, PTL DEF ProcessesSpec

-----------------------------------------------------------------------------
\* Experiments.

\* An experiment being computed is not in the ledger, and nobody else computes it.
Untested(p) == studied[p] # "none" => /\ studies[studied[p]].tested = 0
                                      /\ studies[studied[p]].status \in {"RUNNING", "FAILED"}
OneStudent(p, q) == p # q /\ studied[p] # "none" => studied[p] # studied[q]
Counted(x) == /\ studies[x].tested <= 1
              /\ studies[x].status = "REGISTERED" => studies[x].tested = 0
              /\ studies[x].status = "DONE" => studies[x].tested = 1

StudiesCounted ==
  /\ StudiesType
  /\ \A p \in Processes : Untested(p)
  /\ \A p, q \in Processes : OneStudent(p, q)
  /\ \A x \in Experiments : Counted(x)

LEMMA StudiesInit == ProcessesInit => StudiesCounted
  BY DEF ProcessesInit, StudiesCounted, StudiesType, StudyRow, Untested, OneStudent, Counted

StudiesStep ==
  \/ UNCHANGED <<studies, studied>>
  \/ studies' = failInterrupted(studies) /\ UNCHANGED studied
  \/ \E p \in Processes : \/ FinishStudy(p) \/ FailStudy(p)
                          \/ \E x \in Experiments : StartStudy(p, x)
                          \/ studied' = [studied EXCEPT ![p] = "none"] /\ UNCHANGED studies

LEMMA StepOfStudies == [ProcessesNext]_processVars => StudiesStep
<1>. SUFFICES ASSUME [ProcessesNext]_processVars PROVE StudiesStep
  OBVIOUS
<1>1. CASE UNCHANGED processVars
  BY <1>1 DEF processVars, StudiesStep
<1>2. CASE GhostTimesOut \/ Tick
  BY <1>2 DEF GhostTimesOut, Tick, research, StudiesStep
<1>3. ASSUME NEW p \in Processes,
             Leasing(p) \/ StartRecovery(p) \/ LoopRuns(p) \/ Leaving(p) \/ Boot(p) \/ Running(p)
      PROVE  StudiesStep
  BY <1>3 DEF Leasing, Acquire, Granted, CheckFails, Lost, LoopDrained, LoopEnds, StartRecovery, LoopRuns,
     Leaving, Detach, DetachedEnds, Boot, Running, Progress, EndRun, StartRun, research, StudiesStep
<1>4. ASSUME NEW p \in Processes, JobEnds(p)
      PROVE  StudiesStep
  BY <1>4 DEF JobEnds, RecoverBacktests, RecoveryEnds, LoopReturns, research, StudiesStep
<1>5. ASSUME NEW p \in Processes, Closing(p)
      PROVE  StudiesStep
  BY <1>5 DEF Closing, StopDrained, Release, Exit, Gone, research, StudiesStep
<1>6. ASSUME NEW p \in Processes, Failing(p)
      PROVE  StudiesStep
  BY <1>6 DEF Failing, Stop, Crash, Gone, ConnectionDrops, CheckTimesOut, RecoveryThrows, research, StudiesStep
<1>7. ASSUME NEW p \in Processes, Studying(p)
      PROVE  StudiesStep
  BY <1>7 DEF Studying, StudiesStep
<1>. QED  BY <1>1, <1>2, <1>3, <1>4, <1>5, <1>6, <1>7 DEF ProcessesNext

LEMMA StudiesPreserved == StudiesCounted /\ StudiesStep => StudiesCounted'
<1>. SUFFICES ASSUME StudiesCounted, StudiesStep PROVE StudiesCounted'
  OBVIOUS
<1>. USE IdsAssumption DEF StudiesCounted, StudiesType, StudyRow
<1>1. CASE UNCHANGED <<studies, studied>>
  BY <1>1 DEF Untested, OneStudent, Counted
<1>2. CASE studies' = failInterrupted(studies) /\ UNCHANGED studied
  BY <1>2 DEF failInterrupted, Untested, OneStudent, Counted
<1>3. ASSUME NEW p \in Processes, FinishStudy(p)
      PROVE  StudiesCounted'
  BY <1>3 DEF FinishStudy, Untested, OneStudent, Counted
<1>4. ASSUME NEW p \in Processes, FailStudy(p)
      PROVE  StudiesCounted'
  BY <1>4 DEF FailStudy, Untested, OneStudent, Counted
<1>5. ASSUME NEW p \in Processes, NEW x \in Experiments, StartStudy(p, x)
      PROVE  StudiesCounted'
  <2>1. \A q \in Processes : studied[q] # x
    BY <1>5 DEF StartStudy, Runnable, Untested
  <2>. QED  BY <1>5, <2>1 DEF StartStudy, Runnable, Untested, OneStudent, Counted
<1>6. ASSUME NEW p \in Processes, studied' = [studied EXCEPT ![p] = "none"], UNCHANGED studies
      PROVE  StudiesCounted'
  BY <1>6 DEF Untested, OneStudent, Counted
<1>. QED  BY <1>1, <1>2, <1>3, <1>4, <1>5, <1>6 DEF StudiesStep

\* An experiment's hypotheses enter the ledger at most once, whoever is asked to run it and
\* whoever starts meanwhile.
THEOREM ExperimentsOnce == ProcessesSpec => []TestedOnce
<1>1. StudiesCounted /\ [ProcessesNext]_processVars => StudiesCounted'
  BY StepOfStudies, StudiesPreserved
<1>2. StudiesCounted => TestedOnce
  BY DEF StudiesCounted, TestedOnce, Counted
<1>. QED  BY StudiesInit, <1>1, <1>2, PTL DEF ProcessesSpec

-----------------------------------------------------------------------------
\* The lease.

\* A process believes in a lease whose session is its own, unless its connection failed; the calls its
\* loops have under way are of a lease it believes in or are still being waited for.
Held(p) ==
  /\ leased[p] => session = p \/ dropped[p]
  /\ loop[p] \in {"lost", "drain"} => dropped[p]
  /\ loop[p] \in {"granted", "drain"} => ~leased[p]
  /\ \A j \in Awaited(p) : leased[p] \/ loop[p] = "drain"

\* Loops run in a process that is up, under a lease, and all their calls are of this lease; nothing
\* new is under way without them, and in a process that has let go of its lease no call is.
Worked(p) ==
  /\ work[p] # "none" => phase[p] = "UP" /\ leased[p]
  /\ \A j \in jobs[p] : j[2] = "new" => work[p] # "none"
  /\ work[p] # "none" => \A j \in Awaited(p) : j[2] = "new"
  /\ phase[p] \in {"release", "close", "DOWN"} => ~leased[p] /\ Awaited(p) = {}
  /\ phase[p] = "DOWN" => loop[p] = "ended"

LeaseKept == LeaseType /\ \A p \in Processes : Held(p) /\ Worked(p)

LEMMA LeaseInit == ProcessesInit => LeaseKept
  BY DEF ProcessesInit, LeaseKept, LeaseType, Phases, Loops, Held, Worked, Awaited

\* What stopWork leaves under way is of an earlier lease.
LEMMA AllOld ==
  ASSUME LeaseType, NEW p \in Processes, StopWork(p)
  PROVE  /\ work' = [work EXCEPT ![p] = "none"]
         /\ jobs' \in [Processes -> SUBSET Jobs]
         /\ \A q \in Processes \ {p} : jobs'[q] = jobs[q]
         /\ \A j \in jobs'[p] : j[2] = "old"
         /\ Awaited(p)' # {} => Awaited(p) # {}
<1>. DEFINE old == {<<j[1], "old">> : j \in jobs[p]}
<1>1. jobs[p] \in SUBSET Jobs
  BY DEF LeaseType
<1>2. old \in SUBSET Jobs
  BY <1>1 DEF Jobs
<1>3. jobs' = [jobs EXCEPT ![p] = old]
  BY DEF StopWork
<1>4. jobs'[p] = old /\ \A q \in Processes \ {p} : jobs'[q] = jobs[q]
  BY <1>3 DEF LeaseType
<1>5. Awaited(p)' # {} => Awaited(p) # {}
  BY <1>4 DEF Awaited
<1>. QED  BY <1>2, <1>3, <1>4, <1>5 DEF StopWork, LeaseType

\* Of the lease loop.
LEMMA LeasingKeeps ==
  ASSUME LeaseKept, NEW p \in Processes, Leasing(p)
  PROVE  LeaseKept'
<1>. USE ProcessesAssumption DEF LeaseKept, LeaseType, Phases, Loops
<1>1. CASE Acquire(p)
  BY <1>1 DEF Acquire, Held, Worked, Awaited
<1>2. CASE Granted(p)
  <2>1. CASE stopped(p)
    BY <1>2, <2>1 DEF Granted, Held, Worked, Awaited
  <2>2. CASE ~stopped(p)
    <3>1. /\ phase[p] = "UP" /\ Awaited(p) = {} /\ Awaited(p)' = {}
          /\ session' = session /\ phase' = phase /\ jobs' = jobs
      BY <1>2, <2>2 DEF Granted, stopped, Held, Worked, Awaited
    <3>2. LeaseType'
      BY <1>2, <2>2 DEF Granted
    <3>3. Held(p)'
      <4>1. dropped'[p] = (session # p) /\ loop'[p] = "look" /\ leased'[p]
        BY <1>2, <2>2 DEF Granted
      <4>. QED  BY <3>1, <4>1 DEF Held
    <3>4. Worked(p)'
      <4>1. work'[p] = "recovering" /\ leased'[p]
        BY <1>2, <2>2 DEF Granted
      <4>. QED  BY <3>1, <4>1 DEF Worked
    <3>5. ASSUME NEW q \in Processes \ {p}
          PROVE  Held(q)' /\ Worked(q)'
      BY <1>2, <2>2 DEF Granted, Held, Worked, Awaited
    <3>. QED  BY <3>2, <3>3, <3>4, <3>5
  <2>. QED  BY <2>1, <2>2
<1>3. CASE CheckFails(p)
  BY <1>3 DEF CheckFails, Held, Worked, Awaited
<1>4. CASE Lost(p)
  <2>1. StopWork(p)
    BY <1>4 DEF Lost
  <2>. QED  BY <1>4, <2>1, AllOld DEF Lost, Held, Worked, Awaited
<1>5. CASE LoopDrained(p)
  BY <1>5 DEF LoopDrained, Drained, AfterLoss, Held, Worked, Awaited
<1>6. CASE LoopEnds(p)
  BY <1>6 DEF LoopEnds, stopped, Held, Worked, Awaited
<1>. QED  BY <1>1, <1>2, <1>3, <1>4, <1>5, <1>6 DEF Leasing

\* Of what the loops begin and end.
LEMMA JobsKeep ==
  ASSUME LeaseKept, NEW p \in Processes,
         StartRecovery(p) \/ LoopRuns(p) \/ JobEnds(p) \/ Leaving(p)
  PROVE  LeaseKept'
<1>. USE DEF LeaseKept, LeaseType, Phases, Loops, lease
<1>1. CASE StartRecovery(p)
  BY <1>1 DEF StartRecovery, Begun, Jobs, Held, Worked, Awaited
<1>2. CASE LoopRuns(p)
  BY <1>2 DEF LoopRuns, Begun, Jobs, Held, Worked, Awaited
<1>3. ASSUME NEW g \in {"new", "old"}, RecoverBacktests(p, g)
      PROVE  LeaseKept'
  BY <1>3 DEF RecoverBacktests, Jobs, Held, Worked, Awaited
<1>4. ASSUME NEW g \in {"new", "old"}, RecoveryEnds(p, g)
      PROVE  LeaseKept'
  BY <1>4 DEF RecoveryEnds, Held, Worked, Awaited
<1>5. ASSUME NEW g \in {"new", "old"}, LoopReturns(p, g)
      PROVE  LeaseKept'
  BY <1>5 DEF LoopReturns, Held, Worked, Awaited
<1>6. ASSUME NEW g \in {"new", "old"}, Detach(p, g)
      PROVE  LeaseKept'
  BY <1>6 DEF Detach, Jobs, Held, Worked, Awaited
<1>7. ASSUME NEW g \in {"new", "old"}, DetachedEnds(p, g)
      PROVE  LeaseKept'
  BY <1>7 DEF DetachedEnds, Held, Worked, Awaited
<1>. QED  BY <1>1, <1>2, <1>3, <1>4, <1>5, <1>6, <1>7 DEF JobEnds, Leaving

\* Of starts, shutdowns and deaths.
LEMMA ClosingKeeps ==
  ASSUME LeaseKept, NEW p \in Processes, Boot(p) \/ Closing(p)
  PROVE  LeaseKept'
<1>. USE ProcessesAssumption DEF LeaseKept, LeaseType, Phases, Loops
<1>1. CASE Boot(p)
  BY <1>1 DEF Boot, Held, Worked, Awaited
<1>2. CASE StopDrained(p)
  BY <1>2 DEF StopDrained, Drained, Held, Worked, Awaited
<1>3. CASE Release(p)
  BY <1>3 DEF Release, FreedBy, Held, Worked, Awaited
<1>4. CASE Exit(p)
  BY <1>4 DEF Exit, Gone, FreedBy, Held, Worked, Awaited
<1>. QED  BY <1>1, <1>2, <1>3, <1>4 DEF Closing

LEMMA FailingKeeps ==
  ASSUME LeaseKept, NEW p \in Processes, Failing(p)
  PROVE  LeaseKept'
<1>. USE ProcessesAssumption DEF LeaseKept, LeaseType, Phases, Loops, lease
<1>1. CASE Stop(p)
  <2>1. StopWork(p)
    BY <1>1 DEF Stop
  <2>. QED  BY <1>1, <2>1, AllOld DEF Stop, Held, Worked, Awaited
<1>2. CASE Crash(p)
  BY <1>2 DEF Crash, Gone, Held, Worked, Awaited
<1>3. CASE ConnectionDrops(p)
  BY <1>3 DEF ConnectionDrops, Held, Worked, Awaited
<1>4. CASE CheckTimesOut(p)
  BY <1>4 DEF CheckTimesOut, Held, Worked, Awaited
<1>5. ASSUME NEW g \in {"new", "old"}, RecoveryThrows(p, g)
      PROVE  LeaseKept'
  BY <1>5 DEF RecoveryThrows, Held, Worked, Awaited
<1>. QED  BY <1>1, <1>2, <1>3, <1>4, <1>5 DEF Failing

\* Backtests, experiments and time leave the lease alone.
LEMMA OthersKeep ==
  ASSUME LeaseKept,
         UNCHANGED processVars \/ GhostTimesOut \/ Tick \/ \E p \in Processes : Running(p) \/ Studying(p)
  PROVE  LeaseKept'
<1>. USE ProcessesAssumption DEF LeaseKept, LeaseType, Phases, Loops, Held, Worked, Awaited
<1>1. CASE UNCHANGED processVars
  BY <1>1 DEF processVars
<1>2. CASE GhostTimesOut
  BY <1>2 DEF GhostTimesOut
<1>3. CASE UNCHANGED <<phase, session, leased, loop, work, jobs, dropped>>
  BY <1>3
<1>4. Tick \/ (\E p \in Processes : Running(p) \/ Studying(p))
        => UNCHANGED <<phase, session, leased, loop, work, jobs, dropped>>
  BY DEF Tick, Running, Progress, EndRun, StartRun, Studying, FinishStudy, FailStudy, StartStudy, lease
<1>. QED  BY <1>1, <1>2, <1>3, <1>4

\* The calls of a process's loops, and what they leave behind when they do, are under the lease unless
\* its connection failed, and no call overlaps work under a later lease (worker.ts, stopWork).  What
\* was left behind may go on.
THEOREM UnderLease == ProcessesSpec => []WorkUnderLease
<1>1. LeaseKept /\ [ProcessesNext]_processVars => LeaseKept'
  BY LeasingKeeps, JobsKeep, ClosingKeeps, FailingKeeps, OthersKeep DEF ProcessesNext
<1>2. LeaseKept => WorkUnderLease
  BY DEF LeaseKept, WorkUnderLease, Held, Worked, Awaited
<1>. QED  BY LeaseInit, <1>1, <1>2, PTL DEF ProcessesSpec
=============================================================================
