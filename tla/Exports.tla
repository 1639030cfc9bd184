------------------------------- MODULE Exports -------------------------------
(***************************************************************************)
(* A candidate's data exports: the request, the task that builds the ZIP   *)
(* and the row with its download link, the download, and the nightly purge *)
(* of old exports.                                                         *)
(*                                                                         *)
(* A row and the e-mail with its link share a transaction; the ZIP is      *)
(* uploaded before it and deleted before the row is.  The queue delivers   *)
(* at least once.                                                          *)
(***************************************************************************)
EXTENDS Naturals

CONSTANTS
  Zips,       \* one for every build that uploads
  Hands,      \* requests and tasks handled at a time
  NoZip,
  MaxOrders   \* messages in the queue

ASSUME ExportAssumption == NoZip \notin Zips /\ MaxOrders \in Nat

VARIABLES
  owner,      \* the user's row is there
  orders,     \* messages for build_data_export_task
  export,     \* the dataexportrequest row of each ZIP
  over,       \* rows past expires_at, or used and past their grace
  files,      \* ZIPs in the object store
  made,       \* ZIPs ever uploaded
  hand,       \* what each request or task has read and is about to write
  \* For the properties:
  served,     \* how often each link was answered with its file
  together,   \* links that two downloads had read at a time
  strays      \* ZIPs whose row failed, or went with the account

exportRows == <<owner, orders, export, over>>
exportVars == <<exportRows, files, made, hand, served, together, strays>>

Hand == [op : {"idle", "checked", "built", "download", "purge"},
         zip : Zips \cup {NoZip},
         zips : SUBSET Zips]

Free == [op |-> "idle", zip |-> NoZip, zips |-> {}]

\* has_pending_export reads these; of more than one it makes an error.
PendingExports == {z \in Zips : export[z] = "unused" /\ z \notin over}

ExportTypeOK ==
  /\ owner \in BOOLEAN
  /\ orders \in 0..MaxOrders
  /\ export \in [Zips -> {"none", "unused", "used", "gone"}]
  /\ over \subseteq Zips
  /\ files \subseteq made /\ made \subseteq Zips
  /\ hand \in [Hands -> Hand]
  /\ served \in [Zips -> Nat]
  /\ together \subseteq Zips /\ strays \subseteq Zips
  /\ {z \in Zips : export[z] # "none"} \subseteq made

ExportInit ==
  /\ owner = TRUE
  /\ orders = 0
  /\ export = [z \in Zips |-> "none"]
  /\ over = {} /\ files = {} /\ made = {}
  /\ hand = [h \in Hands |-> Free]
  /\ served = [z \in Zips |-> 0]
  /\ together = {} /\ strays = {}

----------------------------------------------------------------------------
\* request_export: the message goes out after the commit of nothing.
RequestExport ==
  /\ owner
  /\ PendingExports = {}
  /\ orders < MaxOrders
  /\ orders' = orders + 1
  /\ UNCHANGED <<owner, export, over, files, made, hand, served, together, strays>>

\* A message that was acknowledged, or has gone to the dead letters.
OrderGone ==
  /\ orders > 0
  /\ orders' = orders - 1
  /\ UNCHANGED <<owner, export, over, files, made, hand, served, together, strays>>

\* The guard of the task, in a session of its own.  With an export pending the
\* task has nothing to do.
BuildCheck(h) ==
  /\ hand[h] = Free
  /\ orders > 0
  /\ PendingExports = {}
  /\ hand' = [hand EXCEPT ![h].op = "checked"]
  /\ UNCHANGED <<exportRows, files, made, served, together, strays>>

\* The data is gathered and zipped; without its user the task fails.
BuildUpload(h, z) ==
  /\ hand[h].op = "checked"
  /\ owner
  /\ z \notin made
  /\ made' = made \cup {z}
  /\ files' = files \cup {z}
  /\ hand' = [hand EXCEPT ![h].op = "built", ![h].zip = z]
  /\ UNCHANGED <<exportRows, served, together, strays>>

\* The row refers to the user, and the e-mail commits with it.
BuildWrite(h) ==
  /\ hand[h].op = "built"
  /\ owner
  /\ export' = [export EXCEPT ![hand[h].zip] = "unused"]
  /\ hand' = [hand EXCEPT ![h] = Free]
  /\ UNCHANGED <<owner, orders, over, files, made, served, together, strays>>

\* The task fails or its process dies; a ZIP that was uploaded stays.
HandFails(h) ==
  /\ hand[h] # Free
  /\ strays' = IF hand[h].op = "built" THEN strays \cup {hand[h].zip} ELSE strays
  /\ hand' = [hand EXCEPT ![h] = Free]
  /\ UNCHANGED <<exportRows, files, made, served, together>>

----------------------------------------------------------------------------
\* download_export: the row is checked, the file fetched.
DownloadRead(h, z) ==
  /\ hand[h] = Free
  /\ z \in PendingExports
  /\ z \in files
  /\ hand' = [hand EXCEPT ![h].op = "download", ![h].zip = z]
  /\ together' = IF \E g \in Hands : hand[g].op = "download" /\ hand[g].zip = z
                 THEN together \cup {z} ELSE together
  /\ UNCHANGED <<exportRows, files, made, served, strays>>

\* Mutant: the link is answered and not marked.
DownloadWriteUnmarked(h) ==
  LET z == hand[h].zip IN
  /\ hand[h].op = "download"
  /\ export[z] # "gone"
  /\ served[z] < 2
  /\ served' = [served EXCEPT ![z] = @ + 1]
  /\ hand' = [hand EXCEPT ![h] = Free]
  /\ UNCHANGED <<exportRows, files, made, together, strays>>

\* The row is marked by id, whoever marked it before, and must still be there.
DownloadWrite(h) ==
  LET z == hand[h].zip IN
  /\ hand[h].op = "download"
  /\ export[z] # "gone"
  /\ export' = [export EXCEPT ![z] = "used"]
  /\ served' = [served EXCEPT ![z] = @ + 1]
  /\ hand' = [hand EXCEPT ![h] = Free]
  /\ UNCHANGED <<owner, orders, over, files, made, together, strays>>

----------------------------------------------------------------------------
Lapse(z) ==
  /\ export[z] \in {"unused", "used"} /\ z \notin over
  /\ over' = over \cup {z}
  /\ UNCHANGED <<owner, orders, export, files, made, hand, served, together, strays>>

\* Mutant: the row goes although its file could not be deleted.
PurgeExportsReadAll(h) ==
  LET old == {z \in over : export[z] \in {"unused", "used"}} IN
  /\ hand[h] = Free
  /\ old # {}
  /\ \E deleted \in SUBSET old :
       /\ files' = files \ deleted
       /\ hand' = [hand EXCEPT ![h].op = "purge", ![h].zips = old]
  /\ UNCHANGED <<exportRows, made, served, together, strays>>

\* purge_expired_data_export_zips: the files go one by one; the row of one
\* that fails is kept.
PurgeExportsRead(h) ==
  LET old == {z \in over : export[z] \in {"unused", "used"}} IN
  /\ hand[h] = Free
  /\ old # {}
  /\ \E deleted \in SUBSET old :
       /\ files' = files \ deleted
       /\ hand' = [hand EXCEPT ![h].op = "purge", ![h].zips = deleted]
  /\ UNCHANGED <<exportRows, made, served, together, strays>>

PurgeExportsWrite(h) ==
  /\ hand[h].op = "purge"
  /\ export' = [z \in Zips |-> IF z \in hand[h].zips THEN "gone" ELSE export[z]]
  /\ hand' = [hand EXCEPT ![h] = Free]
  /\ UNCHANGED <<owner, orders, over, files, made, served, together, strays>>

\* The account is deleted, its rows with it, and no file.
OwnerGone ==
  /\ owner
  /\ owner' = FALSE
  /\ export' = [z \in Zips |-> IF export[z] = "none" THEN "none" ELSE "gone"]
  /\ strays' = strays \cup {z \in Zips : export[z] \in {"unused", "used"}}
  /\ UNCHANGED <<orders, over, files, made, hand, served, together>>

----------------------------------------------------------------------------
ExportNext ==
  \/ RequestExport \/ OrderGone \/ OwnerGone
  \/ \E h \in Hands :
       \/ BuildCheck(h) \/ BuildWrite(h) \/ HandFails(h) \/ DownloadWrite(h)
       \/ PurgeExportsRead(h) \/ PurgeExportsWrite(h)
       \/ \E z \in Zips : BuildUpload(h, z) \/ DownloadRead(h, z)
  \/ \E z \in Zips : Lapse(z)

ExportSpec == ExportInit /\ [][ExportNext]_exportVars

----------------------------------------------------------------------------
(* Properties. *)

\* "The link is single-use" (download_export), unless two downloads overlap.
ServedOnce == \A z \in Zips : served[z] > 1 => z \in together

\* A link that works has its file.
LinkHasFile == PendingExports \subseteq files

\* "The row is preserved to avoid orphaning data in storage": a ZIP without a
\* row is about to get it, or its build failed, or its account was deleted.
FileHasRow ==
  \A z \in files :
    \/ export[z] \in {"unused", "used"}
    \/ z \in strays
    \/ \E h \in Hands : hand[h].op = "built" /\ hand[h].zip = z

ExportsSound == ServedOnce /\ LinkHasFile /\ FileHasRow

----------------------------------------------------------------------------
(* The inductive invariant. *)

\* What a request or task holds is as it was read, as far as it relies on it.
HandsAgree ==
  \A h \in Hands :
    LET z == hand[h].zip IN
    /\ hand[h].op = "built" =>
         /\ z \in files /\ export[z] = "none"
         /\ \A g \in Hands \ {h} : hand[g].op = "built" => hand[g].zip # z
    /\ hand[h].op = "download" =>
         /\ z \in Zips /\ export[z] # "none"
         /\ \A g \in Hands \ {h} :
              hand[g].op = "download" /\ hand[g].zip = z => z \in together
    /\ hand[h].op = "purge" =>
         \A y \in hand[h].zips : y \notin files /\ export[y] # "none"

\* Only what has a row gets old.
OverHasRow == \A z \in over : export[z] # "none"

\* A link that was answered is marked, and read by others only together.
ServedIsMarked ==
  \A z \in Zips :
    served[z] > 0 =>
      /\ export[z] \in {"used", "gone"}
      /\ \A h \in Hands : hand[h].op = "download" /\ hand[h].zip = z => z \in together

ExportIInv ==
  /\ ExportTypeOK /\ HandsAgree /\ OverHasRow /\ ServedIsMarked /\ ExportsSound
=============================================================================
