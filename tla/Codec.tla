------------------------------- MODULE Codec --------------------------------
(***************************************************************************)
(* codec/raw.go: the columns of a block.  A column is written as pairs of  *)
(* a run length and a difference, which the reader adds up again.  Both    *)
(* sides compute in integers of a fixed width that wrap around.  The       *)
(* payload is the sequence of pairs; the bytes of a varint, the Zstandard  *)
(* frame and the checksum around it are left out.                          *)
(***************************************************************************)
EXTENDS Integers, Sequences, SequencesExt

CONSTANTS
  Half,      \* half of the values a cell can hold: 2^63
  Cols       \* columns of a table

ASSUME CodecAssumption == Half \in Nat \ {0} /\ Cols \in Nat \ {0}

Cell == -Half .. Half - 1

(* The value an integer holds after an addition.                           *)
Wrapped(v) == ((v + Half) % (2 * Half)) - Half

NoRun == [run |-> 0, delta |-> 0]

Flush(out, cur) == IF cur.run > 0 THEN Append(out, cur) ELSE out

(* Mutant: a column goes on from the last value of the one before.         *)
BeforeInTable(table, col, row) ==
  IF row > 1 THEN table[row - 1][col]
  ELSE IF col > 1 /\ Len(table) > 0 THEN table[Len(table)][col - 1] ELSE 0

(* prev of EncodeColumns: every column starts from zero.                   *)
Before(table, col, row) == IF row > 1 THEN table[row - 1][col] ELSE 0

EncodeColumn(table, col) ==
  LET step(w, row) ==
        LET d == Wrapped(table[row][col] - Before(table, col, row))
        IN IF w.cur.run > 0 /\ d # w.cur.delta
           THEN [out |-> Flush(w.out, w.cur), cur |-> [run |-> 1, delta |-> d]]
           ELSE [w EXCEPT !.cur = [run |-> @.run + 1, delta |-> d]]
      end == FoldLeftDomain(step, [out |-> <<>>, cur |-> NoRun], table)
  IN Flush(end.out, end.cur)

EncodeColumns(table) == FlattenSeq([col \in 1..Cols |-> EncodeColumn(table, col)])

Reader(raw) == [raw |-> raw, ok |-> TRUE, cells |-> <<>>]

(* One column of n cells: runs that do not pass the row count, or a failure.*)
DecodeColumn(reader, n) ==
  LET step(r, k) ==
        LET left == n - Len(r.col)
            pair == Head(r.raw)
            last == IF r.col = <<>> THEN 0 ELSE Last(r.col)
        IN IF ~r.ok \/ left = 0 THEN r
           ELSE IF r.raw = <<>> \/ pair.run = 0 \/ pair.run > left THEN [r EXCEPT !.ok = FALSE]
                ELSE [r EXCEPT !.raw = Tail(@),
                               !.col = @ \o [j \in 1..pair.run |-> Wrapped(last + j * pair.delta)]]
      end == FoldLeft(step, [raw |-> reader.raw, ok |-> reader.ok, col |-> <<>>],
                      [k \in 1..n |-> k])
  IN [raw |-> end.raw, ok |-> end.ok, cells |-> Append(reader.cells, end.col)]

(* Nothing may be left over.                                               *)
Consumed(reader) == reader.ok /\ reader.raw = <<>>

(* The table, or <<>> in a rejected answer.                                *)
DecodeColumns(raw, n) ==
  LET end == FoldLeft(LAMBDA r, c : DecodeColumn(r, n), Reader(raw), [c \in 1..Cols |-> c])
  IN [ok |-> Consumed(end),
      table |-> IF Consumed(end) THEN [row \in 1..n |-> [c \in 1..Cols |-> end.cells[c][row]]]
                                 ELSE <<>>]
=============================================================================
