------------------------------ MODULE Archive -------------------------------
(***************************************************************************)
(* The backups on the server's disk, on which the backup page and the      *)
(* retention page work: files, and an index of what is known about them.   *)
(* A file is named for its kind and the second it is made in, so that two  *)
(* backups may share one.  The clock is the number of clicks: what one     *)
(* click causes may happen within a second.                                *)
(***************************************************************************)
EXTENDS PageJobs

(* An entry: id, kind, at, name, and due: made because the schedule says so. *)
Entry(s, kind, at, due) ==
    [id |-> s.next, kind |-> kind, at |-> at, due |-> due,
     name |-> IF kind = "imported" THEN <<kind, s.next>> ELSE <<kind, at>>]

(* A file is written over one of the same name, then the index is extended. *)
Write(s, e, data) ==
    [s EXCEPT !.index = @ \cup {e},
              !.next = @ + 1,
              !.files = {f \in @ : f.name # e.name} \cup {[name |-> e.name, id |-> e.id, data |-> data]}]

(* create_backup: of what is in the database now *)
Backup(s, kind, due) == Write(s, Entry(s, kind, clicks, due), s.data)

(* delete_backup: the file goes, whoever else has it, and the entry *)
Erase(s, e) ==
    [s EXCEPT !.index = @ \ {e}, !.files = {f \in @ : f.name # e.name}]

OnDisk(s, e) == \E f \in s.files : f.name = e.name
Intact(s, e) == \E f \in s.files : f.name = e.name /\ f.id = e.id
Content(s, e) == (CHOOSE f \in s.files : f.name = e.name).data

EntryOf(s, id) == CHOOSE e \in s.index : e.id = id
Known(s, id) == \E e \in s.index : e.id = id

(* check_and_run_*: due when it never ran, or long enough ago *)
Due(on, last, every) == on /\ (last = None \/ clicks >= last + every)
=============================================================================
