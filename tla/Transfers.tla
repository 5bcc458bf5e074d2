------------------------------ MODULE Transfers ------------------------------
(* Files on their way to a remote host: the page's file drawer (app.js),    *)
(* the staging directory (transfer/mod.rs), the handlers between them       *)
(* (server/mod.rs) and the SFTP functions (ssh.rs). Uploads, pushes and     *)
(* listings are requests of their own that run side by side; a push writes  *)
(* in a thread that goes on when its request has gone.                      *)
(* A file is its blocks (64 KiB in sftp_upload_file), each of which is told *)
(* from others by the file it is of. All pushes go to the directory the     *)
(* drawer lists ("./name" and "."): a target is a connection and a name.    *)
EXTENDS Naturals, Sequences, FiniteSets

CONSTANTS Conns,     \* SSH connections
          Files, Names,
          Name,      \* file name of each file
          Size,      \* its number of blocks
          Batches,   \* the files of an upload, in order
          Ids,       \* ids of staged files (random UUIDs)
          Uploads, Pushes, Lists,  \* requests that may be under way at one time
          MaxLists,  \* bound: listings asked for
          None, Hole

ASSUME TransfersAssumption ==
  /\ Name \in [Files -> Names] /\ Size \in [Files -> Nat]
  /\ Batches \subseteq Seq(Files) /\ MaxLists \in Nat
  /\ None \notin Conns /\ Hole \notin Files

VARIABLES staging,   \* the directory: for each id the file and how much of it is there
          up,        \* uploads under way
          listed,    \* the page's stagedFiles
          pane,      \* connection of the active pane, None if it has none with SFTP
          push,      \* pushes under way
          remote,    \* what is in the targets that exist
          list,      \* listings under way
          shown,     \* the listing the drawer shows
          asked,     \* how many listings were asked for
          settled,   \* history: targets whose last push was completed, and nothing since
          promised   \* history: those of them that the page reloaded the listing for

vars == <<staging, up, listed, pane, push, remote, list, shown, asked, settled, promised>>

Targets == Conns \X Names
Idle == [pc |-> "idle"]
NoListing == [conn |-> None, newest |-> FALSE, entries |-> <<>>]

Init == /\ staging = <<>> /\ listed = {} /\ pane = None /\ remote = <<>>
        /\ up = [u \in Uploads |-> Idle] /\ push = [p \in Pushes |-> Idle]
        /\ list = [l \in Lists |-> Idle] /\ shown = NoListing /\ asked = 0
        /\ settled = {} /\ promised = {}

With(f, x, y) == [z \in DOMAIN f \cup {x} |-> IF z = x THEN y ELSE f[z]]

-----------------------------------------------------------------------------
(* uploadFilesToStaging, api_upload_file and save_upload.                   *)

Choose(u, files) ==
  /\ up[u] = Idle
  /\ up' = [up EXCEPT ![u] = [pc |-> "field", todo |-> files, done |-> <<>>]]
  /\ UNCHANGED <<staging, listed, pane, push, remote, list, shown, asked, settled, promised>>

\* The next field has been received, and a file is created for it.
Create(u, id) ==
  /\ up[u].pc = "field" /\ up[u].todo # <<>> /\ id \notin DOMAIN staging
  /\ staging' = With(staging, id, [file |-> Head(up[u].todo), len |-> 0])
  /\ up' = [up EXCEPT ![u] = [pc |-> "write", id |-> id,
                              todo |-> Tail(up[u].todo), done |-> up[u].done]]
  /\ UNCHANGED <<listed, pane, push, remote, list, shown, asked, settled, promised>>

WriteBlock(u) ==
  /\ up[u].pc = "write" /\ staging[up[u].id].len < Size[staging[up[u].id].file]
  /\ staging' = [staging EXCEPT ![up[u].id].len = @ + 1]
  /\ UNCHANGED <<up, listed, pane, push, remote, list, shown, asked, settled, promised>>

StagedEarly(u) ==  \* mutant: the write is not awaited
  /\ up[u].pc = "write"
  /\ up' = [up EXCEPT ![u] = [pc |-> "field", todo |-> up[u].todo,
                              done |-> Append(up[u].done, up[u].id)]]
  /\ UNCHANGED <<staging, listed, pane, push, remote, list, shown, asked, settled, promised>>

Staged(u) ==
  /\ up[u].pc = "write" /\ staging[up[u].id].len = Size[staging[up[u].id].file]
  /\ up' = [up EXCEPT ![u] = [pc |-> "field", todo |-> up[u].todo,
                              done |-> Append(up[u].done, up[u].id)]]
  /\ UNCHANGED <<staging, listed, pane, push, remote, list, shown, asked, settled, promised>>

\* A field cannot be read or a file not be written, or the connection is lost:
\* the page learns of none of the files, what was staged stays where it is.
UploadFails(u) ==
  /\ up[u] # Idle /\ up' = [up EXCEPT ![u] = Idle]
  /\ UNCHANGED <<staging, listed, pane, push, remote, list, shown, asked, settled, promised>>

Pushing(p, to, id) ==
  [pc |-> "ask", to |-> to, id |-> id, off |-> 0, told |-> TRUE, alone |-> FALSE]

\* The answer reaches the page, which lists the files and, if the active pane
\* is an SSH session and the user agrees, has the first of them pushed.
UploadAnswered(u) ==
  /\ up[u].pc = "field" /\ up[u].todo = <<>>
  /\ listed' = listed \cup {[id |-> i, file |-> staging[i].file] : i \in {up[u].done[k] : k \in DOMAIN up[u].done}}
  /\ up' = [up EXCEPT ![u] = Idle]
  /\ \/ UNCHANGED push
     \/ /\ pane # None /\ up[u].done # <<>>
        /\ \E p \in Pushes :
             /\ push[p] = Idle
             /\ LET id == Head(up[u].done)
                IN push' = [push EXCEPT ![p] = Pushing(p, <<pane, Name[staging[id].file]>>, id)]
  /\ UNCHANGED <<staging, pane, remote, list, shown, asked, settled, promised>>

-----------------------------------------------------------------------------
(* api_sftp_upload_staged and sftp_upload_file.                             *)

Writing(to) == {p \in Pushes : push[p].pc = "write" /\ push[p].to = to}
Forget(to, facts) == {f \in facts : f.to # to}

CreateRemoteKeeps(p) ==  \* mutant: an existing file is not cut off
  /\ push[p].pc = "ask" /\ push[p].id \in DOMAIN staging
  /\ LET to == push[p].to
     IN /\ remote' = With(remote, to, IF to \in DOMAIN remote THEN remote[to] ELSE <<>>)
        /\ push' = [q \in Pushes |->
             IF q = p THEN [push[p] EXCEPT !.pc = "write", !.alone = (Writing(to) = {})]
             ELSE IF q \in Writing(to) THEN [push[q] EXCEPT !.alone = FALSE]
             ELSE push[q]]
        /\ settled' = Forget(to, settled) /\ promised' = Forget(to, promised)
  /\ UNCHANGED <<staging, up, listed, pane, list, shown, asked>>

\* The staged file is found, the session is there: the remote file is created,
\* or cut off if it exists.
CreateRemote(p) ==
  /\ push[p].pc = "ask" /\ push[p].id \in DOMAIN staging
  /\ LET to == push[p].to
     IN /\ remote' = With(remote, to, <<>>)
        /\ push' = [q \in Pushes |->
             IF q = p THEN [push[p] EXCEPT !.pc = "write", !.alone = (Writing(to) = {})]
             ELSE IF q \in Writing(to) THEN [push[q] EXCEPT !.alone = FALSE]
             ELSE push[q]]
        /\ settled' = Forget(to, settled) /\ promised' = Forget(to, promised)
  /\ UNCHANGED <<staging, up, listed, pane, list, shown, asked>>

\* A write at an offset; what it leaves out before it is a hole.
Patch(old, off, block) ==
  [k \in 1..(IF off < Len(old) THEN Len(old) ELSE off + 1) |->
     IF k = off + 1 THEN block ELSE IF k <= Len(old) THEN old[k] ELSE Hole]

PushBlockAtEnd(p) ==  \* mutant: "n == 0" does not end the loop at once
  /\ push[p].pc = "write" /\ push[p].off <= staging[push[p].id].len
  /\ remote' = [remote EXCEPT ![push[p].to] = Patch(@, push[p].off, staging[push[p].id].file)]
  /\ push' = [push EXCEPT ![p].off = @ + 1]
  /\ UNCHANGED <<staging, up, listed, pane, list, shown, asked, settled, promised>>

PushBlock(p) ==
  /\ push[p].pc = "write" /\ push[p].off < staging[push[p].id].len
  /\ remote' = [remote EXCEPT ![push[p].to] = Patch(@, push[p].off, staging[push[p].id].file)]
  /\ push' = [push EXCEPT ![p].off = @ + 1]
  /\ UNCHANGED <<staging, up, listed, pane, list, shown, asked, settled, promised>>

\* The local file is at its end. A request that is no longer there ends here.
PushEnds(p) ==
  /\ push[p].pc = "write" /\ push[p].off = staging[push[p].id].len
  /\ push' = [push EXCEPT ![p] = IF push[p].told THEN [push[p] EXCEPT !.pc = "answer"] ELSE Idle]
  /\ settled' = IF push[p].alone
                THEN settled \cup {[to |-> push[p].to, file |-> staging[push[p].id].file]}
                ELSE settled
  /\ UNCHANGED <<staging, up, listed, pane, remote, list, shown, asked, promised>>

\* No session, no such file, a write fails: the remote file stays as it is.
PushFails(p) ==
  /\ push[p].pc \in {"ask", "write"} /\ push' = [push EXCEPT ![p] = Idle]
  /\ UNCHANGED <<staging, up, listed, pane, remote, list, shown, asked, settled, promised>>

-----------------------------------------------------------------------------
(* loadSftpDirectory, api_sftp_list and sftp_list_directory.                *)

Older(lists) == [l \in Lists |-> IF list[l] = Idle THEN Idle ELSE [list[l] EXCEPT !.newest = FALSE]]

AskList(l, c) ==
  /\ list[l] = Idle /\ asked < MaxLists /\ asked' = asked + 1
  /\ list' = [Older(list) EXCEPT ![l] = [pc |-> "asked", conn |-> c, newest |-> TRUE, entries |-> <<>>]]
  /\ shown' = [shown EXCEPT !.newest = FALSE]

\* A pane has connected, or the user opens the directory.
OpenDirectory(l, c) ==
  /\ AskList(l, c)
  /\ UNCHANGED <<staging, up, listed, pane, push, remote, settled, promised>>

\* "File transfer ... complete": the page lists the active pane's directory.
PushAnswered(p) ==
  /\ push[p].pc = "answer" /\ push' = [push EXCEPT ![p] = Idle]
  /\ \/ /\ pane = None /\ UNCHANGED <<list, shown, asked, promised>>
     \/ /\ pane # None /\ \E l \in Lists : AskList(l, pane)
        /\ promised' = promised \cup {f \in settled : f.to = push[p].to /\ f.to[1] = pane}
  /\ UNCHANGED <<staging, up, listed, pane, remote, settled>>

\* Name and size of what is there now.
ReadDirectory(l) ==
  /\ list[l].pc = "asked"
  /\ list' = [list EXCEPT ![l].pc = "answer",
       ![l].entries = [n \in {m \in Names : <<list[l].conn, m>> \in DOMAIN remote} |->
                         Len(remote[<<list[l].conn, n>>])]]
  /\ UNCHANGED <<staging, up, listed, pane, push, remote, shown, asked, settled, promised>>

ListAnsweredFor(l) ==  \* mutant: shown as the listing of the active pane
  /\ list[l].pc = "answer" /\ list' = [list EXCEPT ![l] = Idle]
  /\ shown' = [conn |-> pane, newest |-> list[l].newest, entries |-> list[l].entries]
  /\ UNCHANGED <<staging, up, listed, pane, push, remote, asked, settled, promised>>

ListAnswered(l) ==
  /\ list[l].pc = "answer" /\ list' = [list EXCEPT ![l] = Idle]
  /\ shown' = [conn |-> list[l].conn, newest |-> list[l].newest, entries |-> list[l].entries]
  /\ UNCHANGED <<staging, up, listed, pane, push, remote, asked, settled, promised>>

ListFails(l) ==
  /\ list[l] # Idle /\ list' = [list EXCEPT ![l] = Idle]
  /\ UNCHANGED <<staging, up, listed, pane, push, remote, shown, asked, settled, promised>>

-----------------------------------------------------------------------------

SwitchPane(c) ==
  /\ c # pane /\ pane' = c
  /\ UNCHANGED <<staging, up, listed, push, remote, list, shown, asked, settled, promised>>

\* The page is loaded anew. Its requests are dropped, but a thread that has been
\* started to write a remote file goes on.
PageReloads ==
  /\ listed' = {} /\ pane' = None /\ shown' = NoListing /\ promised' = {}
  /\ up' = [u \in Uploads |-> Idle] /\ list' = [l \in Lists |-> Idle]
  /\ push' = [p \in Pushes |-> IF push[p].pc \in {"ask", "write"} THEN [push[p] EXCEPT !.told = FALSE] ELSE Idle]
  /\ UNCHANGED <<staging, remote, asked, settled>>

\* The gateway stops and starts again. The staging directory stays.
Restart ==
  /\ up' = [u \in Uploads |-> Idle] /\ push' = [p \in Pushes |-> Idle]
  /\ list' = [l \in Lists |-> Idle]
  /\ UNCHANGED <<staging, listed, pane, remote, shown, asked, settled, promised>>

Next == \/ \E u \in Uploads :
             \/ \E files \in Batches : Choose(u, files)
             \/ \E id \in Ids : Create(u, id)
             \/ WriteBlock(u) \/ Staged(u) \/ UploadFails(u) \/ UploadAnswered(u)
        \/ \E p \in Pushes :
             CreateRemote(p) \/ PushBlock(p) \/ PushEnds(p) \/ PushFails(p) \/ PushAnswered(p)
        \/ \E l \in Lists :
             \/ ReadDirectory(l) \/ ListAnswered(l) \/ ListFails(l)
             \/ \E c \in Conns : OpenDirectory(l, c)
        \/ \E c \in Conns \cup {None} : SwitchPane(c)
        \/ PageReloads \/ Restart

Spec == Init /\ [][Next]_vars

-----------------------------------------------------------------------------
(* Properties.                                                              *)

StagedType == [file : Files, len : Nat]
UploadType == {Idle} \cup [pc : {"field"}, todo : Seq(Files), done : Seq(Ids)]
                    \cup [pc : {"write"}, id : Ids, todo : Seq(Files), done : Seq(Ids)]
PushType == {Idle} \cup [pc : {"ask", "write", "answer"}, to : Targets, id : Ids, off : Nat,
                         told : BOOLEAN, alone : BOOLEAN]

\* Type invariant: a request refers only to files that were staged, and has
\* read no more of one than there is.
TypeOK ==
  /\ DOMAIN staging \subseteq Ids
  /\ \A i \in DOMAIN staging : staging[i] \in StagedType /\ staging[i].len <= Size[staging[i].file]
  /\ up \in [Uploads -> UploadType] /\ listed \subseteq [id : Ids, file : Files]
  /\ pane \in Conns \cup {None} /\ push \in [Pushes -> PushType]
  /\ \A p \in Pushes : push[p] # Idle =>
       push[p].id \in DOMAIN staging /\ push[p].off <= staging[push[p].id].len
  /\ DOMAIN remote \subseteq Targets
  /\ \A to \in DOMAIN remote : remote[to] \in Seq(Files \cup {Hole})
  /\ asked \in 0..MaxLists
  /\ promised \subseteq settled /\ settled \subseteq [to : Targets, file : Files]

\* Every file the drawer offers is in the staging directory, complete: whatever
\* uploads failed half way and wherever the gateway was stopped ("Files staged",
\* app.js:1485; a download reads what is there, server/mod.rs:1007).
NamedIsWhole ==
  \A f \in listed : /\ f.id \in DOMAIN staging
                    /\ staging[f.id] = [file |-> f.file, len |-> Size[f.file]]

Copy(file) == [k \in 1..Size[file] |-> file]

\* A push that was completed while no other wrote to its target leaves there
\* the file and nothing else, whatever was there before and whichever pushes
\* failed or were cut off, until the next push to that target begins ("File
\* uploaded to remote host successfully", server/mod.rs:1186).
CompletedIsCopied ==
  \A f \in settled : f.to \in DOMAIN remote /\ remote[f.to] = Copy(f.file)

\* If the drawer shows the listing that was asked for last, a file whose push
\* was reported while its pane was active is in it with its full size, however
\* the answers to earlier listings arrive (app.js:1601).
ReportedIsListed ==
  shown.newest =>
    \A f \in promised : f.to[1] = shown.conn =>
      f.to[2] \in DOMAIN shown.entries /\ shown.entries[f.to[2]] = Size[f.file]
=============================================================================
