------------------------------ MODULE MCEditors ------------------------------
(* mailx on the system mailbox, ed and ex, for TLC.  A behaviour is about one *)
(* of them; the variables of the others stay as they are.                     *)
EXTENDS Ed, Mailbox, TLC

CONSTANTS s1, s2

VARIABLES
  part,
  buf, ses, disk, recs, expc, textat, got_hup, did, sessions, fulls, focus, undone, ex_saved, preserved

exVars == <<buf, ses, disk, recs, expc, textat, got_hup, did, sessions, fulls, focus, undone, ex_saved, preserved>>
all == <<part, mailVars, edVars, exVars>>

X == INSTANCE Ex WITH Files <- <<"A", "B">>, Contents <- {<<<<"x">>, <<"y", "x">>, <<>>>>, <<<<"x">>, <<"y">>>>},
       MaxCommands <- 3, MaxEdits <- 3, MaxSessions <- 2, MaxFull <- 1, MaxLines <- 3, saved <- ex_saved

\* A hangup of ex in one session.
Hup == INSTANCE Ex WITH Files <- <<"A", "B">>, Contents <- {<<<<"x">>, <<"y", "x">>, <<>>>>, <<<<"x">>, <<"y">>>>},
         MaxCommands <- 1, MaxEdits <- 0, MaxSessions <- 1, MaxFull <- 1, MaxLines <- 4, saved <- ex_saved

ASSUME Bounds == X!ExBounds

SwapSessions == Permutations({s1, s2})

\* The mailbox before any mail; no variable of mailx is set.
NoMail == MailInit /\ \A k \in DOMAIN opts : ~opts[k]
NoEd == EdInit /\ lines = <<>>
NoEx == /\ buf = 0 /\ ses = 0 /\ disk = 0 /\ recs = 0 /\ expc = 0 /\ textat = 0 /\ got_hup = 0 /\ did = 0 /\ sessions = 0
        /\ fulls = 0 /\ focus = 0 /\ undone = 0 /\ ex_saved = 0 /\ preserved = 0

\* No variable of mailx is set, one, MBOX is the mailbox and another one is set, or all.
Chosen == LET set == {k \in DOMAIN opts : opts[k]}
          IN Cardinality(set) \in {0, 1, 5} \/ (Cardinality(set) = 2 /\ opts.same)

Init == \/ part = "mail" /\ MailInit /\ Chosen /\ NoEd /\ NoEx
        \/ part = "ed" /\ EdInit /\ NoMail /\ NoEx
        \/ part = "ex" /\ X!ExInit /\ NoMail /\ NoEd
Next == \/ part = "mail" /\ MailNext /\ UNCHANGED <<part, edVars, exVars>>
        \/ part = "ed" /\ EdNext /\ UNCHANGED <<part, mailVars, exVars>>
        \/ part = "ex" /\ X!ExNext /\ UNCHANGED <<part, mailVars, edVars>>
Spec == Init /\ [][Next]_all

HangupInit == part = "ex" /\ Hup!ExInit /\ NoMail /\ NoEd
HangupNext == Hup!ExNext /\ UNCHANGED <<part, mailVars, edVars>>
HangupSpec == HangupInit /\ [][HangupNext]_all /\ WF_exVars(Hup!hup_exit) /\ WF_exVars(Hup!TextEnd /\ got_hup)

\* u restores the buffer, marks and all; the current line exists (UndoExact and
\* CurInRange of Ex: undo.c).
ExUndoes == part = "ex" => X!UndoExact /\ X!CurInRange

\* A changed buffer is not left without a warning, and one that was preserved at a
\* hangup can be recovered (NothingDiscarded and Recoverable of Ex: file.c, recover.c).
ExKeeps == part = "ex" => X!NothingDiscarded /\ X!Recoverable

\* When the line hangs up, ex preserves a changed buffer and ends (HangupEnds of Ex:
\* src/vi/README.md:50).
HangupEnds == Hup!HangupEnds
=============================================================================
