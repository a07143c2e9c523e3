--------------------------- MODULE ForecastLedger ---------------------------
(***************************************************************************)
(* The forecast ledger of the live session: every sample of the autorun    *)
(* records one forecast per scored symbol, the post-close block grades     *)
(* them (src/analytics/forecast_ledger.py, called from                     *)
(* scripts/autorun_till_close.py; upsert_forecasts_batch of                *)
(* src/data/signal_db.py).                                                 *)
(*                                                                         *)
(* The ledger is a JSONL file.  A new row is appended through a buffer; a  *)
(* row that changes is changed by writing the whole file again, which      *)
(* truncates it first.  PostgreSQL gets the rows of the file after each    *)
(* recording, or nothing when it does not answer.  The autorun can be      *)
(* killed between any two of these steps, and is then started again.       *)
(*                                                                         *)
(* Abstractions.  One autorun at a time.  The uuid of a row is its symbol, *)
(* its day and the sample that wrote it; estimates, priors and Brier       *)
(* scores are left out.  A write of the whole file after its truncation is *)
(* one step.  The close may come at any moment between two samples.        *)
(***************************************************************************)
EXTENDS Integers

CONSTANTS
  Symbols,     \* the scored universe
  NoRow,       \* no symbol
  MaxDays,     \* bound: sessions
  MaxSamples   \* bound: recordings per session

ASSUME SymbolsAssumption == NoRow \notin Symbols
ASSUME BoundsAssumption == MaxDays \in Nat \ {0} /\ MaxSamples \in Nat

Rows == [symbol : Symbols, day : 1 .. MaxDays, sample : 1 .. MaxSamples]
Verdicts == {"won", "lost"}
Statuses == {"absent", "open", "superseded"} \cup Verdicts

VARIABLES
  file,        \* file[r]: status of row r in forecasts.jsonl
  pg,          \* pg[r]: status of row r in the table forecasts
  image,       \* what write_text is about to write
  buffer,      \* rows written to the open file handle and not flushed
  autorun,     \* what the autorun does
  todo,        \* symbols that the recording under way has not reached
  turn,        \* the symbol whose old row is being superseded
  day, sample, closed,
  \* History: rows that reached the file, whether a kill emptied the file,
  \* whether a kill cut a recording short.
  logged, wiped, cut

store == <<file, pg, image, buffer>>
clock == <<day, sample, closed>>
history == <<logged, wiped, cut>>
vars == <<store, autorun, todo, turn, clock, history>>

Empty == [r \in Rows |-> "absent"]

Init ==
  /\ file = Empty /\ pg = Empty /\ image = Empty
  /\ buffer = {}
  /\ autorun = "off"
  /\ todo = {} /\ turn = NoRow
  /\ day = 1 /\ sample = 0 /\ closed = FALSE
  /\ logged = {} /\ wiped = FALSE /\ cut = FALSE

\* The watchdog starts an autorun, or starts one again.
Launch ==
  /\ autorun = "off"
  /\ autorun' = "idle"
  /\ UNCHANGED <<store, todo, turn, clock, history>>

-----------------------------------------------------------------------------
(* record_session.                                                         *)

NewRow(s) == [symbol |-> s, day |-> day, sample |-> sample]

\* Variant: the session date is not looked at.
OpenOfAnySession(s) == {r \in Rows : file[r] = "open" /\ r.symbol = s}
\* _load_open, for one symbol.  The code reads it once, before the loop; the
\* loop changes no open row of a symbol it has not reached.
OpenRows(s) == {r \in Rows : file[r] = "open" /\ r.symbol = s /\ r.day = day}

Appended(rows, base) == [r \in Rows |-> IF r \in rows THEN "open" ELSE base[r]]

RecordSession(scored) ==
  /\ autorun = "idle" /\ ~closed /\ sample < MaxSamples
  /\ autorun' = "recording"
  /\ todo' = scored
  /\ sample' = sample + 1
  /\ UNCHANGED <<store, turn, day, closed, history>>

Superseded(old) == [r \in Rows |-> IF r \in old THEN "superseded" ELSE file[r]]

\* _mark_superseded: _load_all, and write_text truncates the file.
MarkSuperseded(s) ==
  /\ autorun = "recording" /\ turn = NoRow
  /\ s \in todo /\ OpenRows(s) # {}
  /\ turn' = s
  /\ image' = Superseded(OpenRows(s))
  /\ file' = Empty
  /\ UNCHANGED <<pg, buffer, autorun, todo, clock, history>>

\* fh.write: the row stays in the buffer, or fills it and all of it is flushed.
WriteRow(s, base) ==
  /\ todo' = todo \ {s}
  /\ turn' = NoRow /\ image' = Empty
  /\ \/ /\ buffer' = buffer \cup {NewRow(s)}
        /\ file' = base
        /\ UNCHANGED logged
     \/ /\ buffer' = {}
        /\ file' = Appended(buffer \cup {NewRow(s)}, base)
        /\ logged' = logged \cup buffer \cup {NewRow(s)}
  /\ UNCHANGED <<pg, autorun, clock, wiped, cut>>

WriteFirst(s) ==
  /\ autorun = "recording" /\ turn = NoRow
  /\ s \in todo /\ OpenRows(s) = {}
  /\ WriteRow(s, file)

\* write_text of _mark_superseded, then the new row of the same symbol.
WriteSuccessor ==
  /\ autorun = "recording" /\ turn # NoRow
  /\ WriteRow(turn, image)

\* The file is closed: the rest of the buffer is flushed.
CloseFile ==
  /\ autorun = "recording" /\ turn = NoRow /\ todo = {}
  /\ file' = Appended(buffer, file)
  /\ logged' = logged \cup buffer
  /\ buffer' = {}
  /\ autorun' = "mirroring"
  /\ UNCHANGED <<pg, image, todo, turn, clock, wiped, cut>>

\* Variant: ON CONFLICT (id) DO NOTHING.
UpsertedNew == [r \in Rows |-> IF pg[r] = "absent" THEN file[r] ELSE pg[r]]
\* upsert_forecasts_batch with every row of the file.
Upserted == [r \in Rows |-> IF file[r] = "absent" THEN pg[r] ELSE file[r]]

Mirror ==
  /\ autorun = "mirroring"
  /\ pg' \in {Upserted, pg}
  /\ autorun' = "idle"
  /\ UNCHANGED <<file, image, buffer, todo, turn, clock, history>>

-----------------------------------------------------------------------------
(* The close: resolve_session.                                             *)

MarketClose ==
  /\ ~closed
  /\ closed' = TRUE
  /\ UNCHANGED <<store, autorun, todo, turn, day, sample, history>>

\* Variant: a symbol without a return is graded all the same.
GradedAnyhow(verdict) ==
  [r \in Rows |-> IF r.day = day /\ file[r] = "open" THEN verdict[r.symbol] ELSE file[r]]
\* A symbol that closes neutral or without a quote has no return: its rows
\* stay as they are.
Graded(verdict) ==
  [r \in Rows |->
     IF r.day = day /\ file[r] = "open" /\ verdict[r.symbol] \in Verdicts
     THEN verdict[r.symbol] ELSE file[r]]

\* _load_all, and write_text truncates the file.
ResolveSession(verdict) ==
  /\ autorun = "idle" /\ closed
  /\ autorun' = "resolving"
  /\ image' = Graded(verdict)
  /\ file' = Empty
  /\ UNCHANGED <<pg, buffer, todo, turn, clock, history>>

WriteResolved ==
  /\ autorun = "resolving"
  /\ file' = image /\ image' = Empty
  /\ autorun' = "closing"
  /\ UNCHANGED <<pg, buffer, todo, turn, clock, history>>

\* The rest of the post-close block, and the autorun's own exit.
Exit ==
  /\ autorun = "closing"
  /\ autorun' = "done"
  /\ UNCHANGED <<store, todo, turn, clock, history>>

-----------------------------------------------------------------------------
Rewriting == turn # NoRow \/ autorun = "resolving"

\* What the file holds, or will hold when the rewrite under way ends.
Ledger == IF Rewriting THEN image ELSE file

\* The autorun is killed: by the watchdog, by the scheduler, by the machine.
Kill ==
  /\ autorun \notin {"off", "done"}
  /\ autorun' = "off"
  /\ wiped' = (wiped \/ (Rewriting /\ image # Empty))
  /\ cut' = (cut \/ autorun = "recording")
  /\ buffer' = {} /\ image' = Empty
  /\ todo' = {} /\ turn' = NoRow
  /\ UNCHANGED <<file, pg, clock, logged>>

NextDay ==
  /\ closed /\ day < MaxDays
  /\ autorun \in {"off", "done"}
  /\ day' = day + 1 /\ sample' = 0 /\ closed' = FALSE
  /\ autorun' = "off"
  /\ UNCHANGED <<store, todo, turn, history>>

Next ==
  \/ Launch
  \/ \E scored \in SUBSET Symbols \ {{}} : RecordSession(scored)
  \/ \E s \in Symbols : MarkSuperseded(s) \/ WriteFirst(s)
  \/ WriteSuccessor
  \/ CloseFile
  \/ Mirror
  \/ MarketClose
  \/ \E verdict \in [Symbols -> Verdicts \cup {"none"}] : ResolveSession(verdict)
  \/ WriteResolved
  \/ Exit
  \/ Kill
  \/ NextDay

Spec == Init /\ [][Next]_vars

-----------------------------------------------------------------------------
(* Properties.                                                             *)

\* Every variable stays in its range.
TypeOK ==
  /\ file \in [Rows -> Statuses]
  /\ pg \in [Rows -> Statuses]
  /\ image \in [Rows -> Statuses]
  /\ buffer \subseteq Rows /\ logged \subseteq Rows
  /\ autorun \in {"off", "idle", "recording", "mirroring", "resolving", "closing", "done"}
  /\ todo \subseteq Symbols
  /\ turn \in Symbols \cup {NoRow}
  /\ day \in 1 .. MaxDays /\ sample \in 0 .. MaxSamples
  /\ closed \in BOOLEAN /\ wiped \in BOOLEAN /\ cut \in BOOLEAN

Live(status) == status \in {"open"} \cup Verdicts

OneLive(status) ==
  \A r, q \in Rows :
    r.symbol = q.symbol /\ r.day = q.day /\ Live(status[r]) /\ Live(status[q]) => r = q

\* One live forecast per symbol per day (forecast_ledger.py, record_session):
\* whatever was killed in between, the statistics never count two rows of a
\* symbol and a session, and neither does the table, unless a kill emptied the
\* file, whose rows the table then keeps open for ever.
OneLivePerSymbol == OneLive(file) /\ (wiped \/ OneLive(pg))

\* A row that reached the file is there until a kill meets an empty file, and
\* a superseded row has its successor in the file or under way unless a kill
\* cut a recording short: rewriting everything loses nothing by itself.
LostOnlyByKill ==
  /\ wiped \/ \A r \in logged : Ledger[r] # "absent"
  /\ \A r \in Rows : Ledger[r] = "superseded" =>
       \/ cut
       \/ r.symbol = turn /\ r.day = day
       \/ \E q \in Rows : /\ q.symbol = r.symbol /\ q.day = r.day
                          /\ q \in buffer \/ Live(Ledger[q])

=============================================================================
