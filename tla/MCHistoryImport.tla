---------------------------- MODULE MCHistoryImport ----------------------------
(* Instances of HistoryImport, with the job memory it writes, for TLC. *)
EXTENDS HistoryImport, TLC

CONSTANTS j1, j2, d1, d2

MCDraftJobs == <<d1, d2>>
MCDraftForm(applied, dup, keep) == [applied |-> applied, dup |-> dup, keep |-> keep]
\* Applied for or not, a duplicate with and without a process of its own.
MCDraftForms ==
  {MCDraftForm(TRUE, 0, FALSE), MCDraftForm(FALSE, 0, FALSE), MCDraftForm(TRUE, 1, FALSE),
   MCDraftForm(TRUE, 1, TRUE)}
MCNoteForms == {[type |-> "rejected", at |-> 2], [type |-> "hr_replied", at |-> 1]}
Limit(n, edits, most, start, end) ==
  [drafts |-> n, edits |-> edits, notes |-> most, start |-> start, end |-> end]
\* The job memory alone, a session of two drafts beside other commands, and commands on
\* what was imported.
MCAll == {Limit(0, 0, 0, 0, 0), Limit(2, 2, 2, 0, 0), Limit(2, 1, 0, 1, 0), Limit(1, 1, 1, 1, 3)}
MCSymmetry == Permutations({j1, j2}) \cup Permutations(Keys) \cup Permutations(Resumes)
=============================================================================
