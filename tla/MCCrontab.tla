----------------------------- MODULE MCCrontab ------------------------------
(* Crontabs with a comment, two equal jobs, a fence, a fence upside down, and none at all. *)
EXTENDS Crontab

Backup == Job("backup", "daily")
Sync == [Job("sync", "daily") EXCEPT !.spacing = "wide"]
Managed == Plain("begin")
Close == Plain("end")
SomeTexts == {<<>>, <<Plain("note"), Backup, Sync>>, <<Backup, Backup>>,
              <<Backup, Managed, Plain("id"), Sync, Close>>, <<Close, Sync, Managed>>}
=============================================================================
