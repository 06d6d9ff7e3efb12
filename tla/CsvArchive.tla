----------------------------- MODULE CsvArchive -----------------------------
(***************************************************************************)
(* The archives of bsc-predict-updater (services/csvImport.ts): what is    *)
(* read from the lines of a file, and which of its rounds an import        *)
(* stores.  A line is a record of its fields; whether all of them are the  *)
(* integers and booleans its format wants is told apart, not how they are  *)
(* written.                                                                *)
(***************************************************************************)
EXTENDS RoundRules, Ordering

EXPECTED_COLUMNS == [PANCAKESWAP_V2 |-> 14, PANCAKESWAP_V1 |-> 12, PRDT |-> 16]
Formats == DOMAIN EXPECTED_COLUMNS

\* One empty column more is tolerated; amounts must add up where the total is a column of its own.
WellFormed(format, line) ==
  /\ line.columns \in {EXPECTED_COLUMNS[format], EXPECTED_COLUMNS[format] + 1}
  /\ line.columns > EXPECTED_COLUMNS[format] => line.lastEmpty
  /\ line.typed
  /\ format # "PRDT" /\ line.epoch # 0 /\ line.start # 0 => line.total = line.bull + line.bear

\* A round that had not begun, or a PRDT round that was not over, when the archive was written.
\* V2 and PRDT archives have times, the V1 archive has blocks in their place.
Skipped(format, line) ==
  CASE format = "PANCAKESWAP_V2" -> line.epoch = 0 \/ line.start = 0
    [] format = "PANCAKESWAP_V1" -> line.start = 0
    [] format = "PRDT" -> ~line.completed /\ ~line.cancelled

Usable(format, line) == WellFormed(format, line) /\ ~Skipped(format, line)

\* The round a usable line stands for.  Every archived round is final: V2 rounds were ended or past
\* their buffer, V1 is paused, PRDT says which were cancelled.
parseRow(format, line) ==
  LET Time(t) == IF format = "PANCAKESWAP_V1" THEN Null ELSE OrNull(t)
      called == IF format = "PRDT" THEN line.completed ELSE line.oracleCalled
      cancelled == IF format = "PRDT" THEN line.cancelled ELSE ~line.oracleCalled
      r == [epoch |-> line.epoch,
            startTime |-> Time(line.start), lockTime |-> Time(line.lock), closeTime |-> Time(line.close),
            lockPrice |-> OrNull(line.lockPrice), closePrice |-> OrNull(line.closePrice),
            lockOracleId |-> IF format = "PANCAKESWAP_V2" THEN OrNull(line.lockOracleId) ELSE Null,
            oracleCalled |-> called, bullAmount |-> line.bull, bearAmount |-> line.bear, outcome |-> Null]
  IN  [r EXCEPT !.outcome = deriveOutcome(r, IF cancelled THEN "CANCELLED" ELSE "ENDED")]

\* The usable lines, each counted once, that no other usable line of their epoch contradicts.  An
\* epoch with different usable lines is left to be filled from the chain.
Accepted(format, lines) ==
  LET usable == {line \in lines : Usable(format, line)}
  IN  {line \in usable : \A other \in usable : other.epoch = line.epoch => other = line}

LineOf(lines, epoch) == CHOOSE line \in lines : line.epoch = epoch

\* The rounds an import of the lines of a file stores, in the order of their epochs.
Imported(format, lines) ==
  LET accepted == Accepted(format, lines)
      epochs == Ascending({line.epoch : line \in accepted})
  IN  [n \in DOMAIN epochs |-> parseRow(format, LineOf(accepted, epochs[n]))]
=============================================================================
