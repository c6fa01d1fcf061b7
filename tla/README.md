# A TLA+ model of signalbackup-tools

signalbackup-tools opens the encrypted backup file of Signal for Android, works on
the SQLite database and the media in it, and writes the result as another backup,
as a directory of files, or as HTML, text, CSV or XML. These modules model the parts
of it a mistake in which costs a user messages: reading a backup that may be damaged,
keeping its media, writing a backup that can be read again, unpacking it, importing
the threads of one backup into another, editing the database, and putting the styles
of a message where they belong.

## 1. The system

The program is sequential. What is hard about it is not interleaving but damage,
partial failure and state that outlives the step that made it.

| part | state | operations | talks to |
|---|---|---|---|
| `FileDecryptor` | stream position, `d_counter`, `d_framecount`, `d_badmac`, the header frame | `getFrame`, `getFrameOld`, `bruteForceFrom`, `getFrameBrute` | the file; returns frames, and gives frames with data an `AndroidAttachmentReader` |
| frames (`BackupFrame` and its subclasses) | fields, length | `getData`, `validate`, `attachmentSize` | made by the decryptor, written by the exporter |
| `FrameWithAttachment`, attachment readers | cached data, reader, `d_noclear` | `attachmentData`, `getAttachment`, `clearData` | read the input file again, whenever data is asked for |
| `SignalBackup` (memory) | SQLite database, `d_attachments`, `d_stickers`, `d_avatars`, preference and key-value frames, header, version and end frame | `initFromFile`, `initFromDir`; `exportBackupToFile`, `exportBackupToDir`; the database steps | all of the above |
| `FileEncryptor` | its own `d_counter` | `init`, `encryptFrame`, `encryptAttachment` | the output stream |
| database steps | the database and the frame maps | `importThread`, `makeIdsUnique`, `compactIds`, `mergeRecipients`, `mergeGroups`, `cropToThread`, `cropToDates`, `removeDoubles`, `deleteAttachments`, `reorderMmsSmsIds`, `updateThreadsEntries`, `cleanDatabaseByMessages` | run by `main` in a fixed order |
| foreign sources | Desktop's SQLCipher database, plaintext XML, adb backups, Telegram JSON | translate into rows of the Android schema | the database steps |
| bodies (`HTMLprepMsgBody`) | one string, a list of ranges, positions excluded from escaping | `prepRanges`, `applyRanges`, `HTMLescapeString`, `HTMLemojify` | called for each message of the HTML export |
| exports | output files | `exportHtml`, `exportTxt`, `exportCsv`, `exportXml`, `dumpMedia`, `dumpAvatars` | read the database, and attachment data |
| `main` | the order of all of it | a failing step returns 1, unless `--force` | all |

What is hard, and what makes each part correct:

* **The counter.** Reader and writer each count the values of the iv: one for a
  frame, one for a block of data. Nothing in the file says which value a block was
  written with. Every path through both has to count alike, also behind the wrap
  of the 32 bits that go into the iv.
* **Damage.** In a version 1 file the length of a frame is encrypted, so nothing
  behind damage can be found. In a version 0 file the decryptor searches byte by
  byte for a frame that verifies, then for the counter value that decodes it. It
  must go forward, keep order, give a frame the data that belongs to it, and lose
  nothing that is whole, but for what a damaged length takes along.
* **A partial load is a load.** A load that breaks off adds an end frame and is
  `ok()`. What was loaded must then be a beginning of the file and nothing else.
* **The cache.** Attachment data is read long after the load, and kept until it is
  dropped. Data that does not verify must not be written as if it did.
* **Partial output.** The output is written under its final name. Whatever fails,
  what is left must not pass for a complete backup.
* **The ids.** An import renumbers the rows of the source past those of the
  target, table after table, and every column that refers to them: by a list of
  links that is kept by hand, with statements that SQLite executes row by row
  under UNIQUE constraints, and with attachments and avatars in memory that must
  follow. Contacts both backups know, perhaps by different numbers, must become
  one. Nothing reports a reference that has gone astray.
* **What a deletion takes along.** Cropping, removing doubles and merging delete
  rows, and what belongs to them is deleted by hand, table after table; the thread
  table caches what can be computed from the messages. What is kept must be whole,
  what may go is bounded by what was asked for, and a repair that deletes rows with
  broken references breaks others by it, so that it has to be repeated to an end.
* **The directory.** It is written file by file, each failure is remembered and the
  next file written. Whatever is in it when the program stops, `initFromDir` must
  not take it for a backup.
* **Positions.** Mentions, styles and links refer to a body by position, in UTF-16
  units; passes that insert tags, escape and wrap emoji move what the next pass
  refers to, in bytes. Ranges may overlap in any way, and tags have to nest.

`PROJECT.json` lists the hazards at their lines.

## 2. The modules

```
BackupFile            the file as a sequence of blocks; frames, damage, counters
  FileDecryptor       getFrame and the search, one call per action
    InitFromFile      initFromFile: the loop and the backup in memory
      ExportToFile    exportBackupToFile, one frame per action
        Session       main: open, dump media, HTML, export, open the result
          SessionImplements   Session implements BackupCopy
            SessionImplements_proofs   ... for backups of any size, and what loading the copy gives
  FileEncryptor       encryptFrame, encryptAttachment, the output stream
FrameWithAttachment   attachmentData, getAttachment, clearData
BackupCopy            abstract: what an export promises
Induction             sets closed under a step; least elements and least fixpoints
Load_proofs           types, order, own data, completeness, nothing lost before damage
  Session_proofs      what a session writes, and what the second run reads
SampleBackups, MCInitFromFile, MCSession   small instances for TLC

Database              six tables, their links and UNIQUE columns, UPDATE
  MakeIdsUnique       makeIdsUnique and compactIds, a table or a gap per action
    ImportThread      importThread, called for each thread; reorderMmsSmsIds
      ImportImplements  ImportThread implements MergedBackup
        ImportImplements_proofs   ... for backups that can be merged, of any size
      ImportThread_proofs   _ids apart, links, types, avatars, order by date
  CleanDatabase       foreign keys; cleanDatabaseByMessages, updateThreadsEntries
    EditDatabase      the operations main edits a backup with, in their order
      EditDatabase_proofs   types, data and previews, mentions, losses, counts;
                            what the repair, the cleaning and removeDoubles delete;
                            references, and recipients merged by their _id
MergedBackup          abstract: what an import promises
MCImport, MCEditDatabase      small instances for TLC

UnpackedBackup        a backup as a directory; initFromDir as an operator
  ExportToDir         exportBackupToDir, one file per action; implements OfferedBackup
    ExportToDir_proofs  what a stopped, a failed and a finished export leave to open;
                        ExportToDir implements OfferedBackup
OfferedBackup         abstract: what unpacking promises to who opens the directory
MCExportToDir         small instances for TLC

MessageRanges         bytes, ranges, prepRanges
  MessageBody         HTMLprepMsgBody: one range or pass per action
MCMessageBody         small instances for TLC
```

The options of the command line that steer a component are part of its state
(`command`), chosen at the start and never changed, so that one run compares them.

**BackupFile.** What one counter value encrypts is a *block*: a frame, or the data
behind a frame. A file is a sequence of blocks, each with the iv it was encrypted
with and with what happened to it since (`Damage`: the length field changed, other
bytes changed, the file ends inside it or inside its MAC). Bytes are not modelled:
AES-CTR decrypts with the right iv or gives noise, and noise does not verify.
Noise that verifies by chance (2^-80) is not a behaviour.

**FileDecryptor.** `pos` is the block the stream stands at; `aligned` says it
stands at its first byte. A wrong size (Signal issue 9154) leaves the stream
inside a block, and so may a damaged length. Each action is one return path of one call: `GetEof`, `GetHeader`,
then for version 1 `GetFrame`, `GetFrameBadMac`, `GetFrameNoise` and for version 0
`GetFrameOld`, `GetFrameOldNoise`, `GetFrameOldBadMac`. The search (`BruteForce`)
is one step: it finds the first frame that verifies and is accepted under one of
the counter values tried. The code tries one for every ten bytes it moved on. No block
is shorter, so it tries at least one for each block that lies whole between the stream
and the frame, of which a stream inside a block has one less (`Tried`). A frame that
needs no more than these is found (`IsFound`); one that needs more, which long blocks
allow, may be (`Found`). Noise never decodes as a frame with the next number. A frame
whose MAC is bad is returned all the same if it can be decoded, and bytes behind it are
not looked at (initbackupframe.cc:47-69): then a length that was damaged and is larger
now leaves the stream at any later place, inside a block, where one ends, or at the end
of the file (`Overshoots`); a frame that is cut short cannot be decoded. Other noise
branches are nondeterministic, as wrong lengths may be refused at once, point past
the end, or frame bytes that do not verify.

**FrameWithAttachment.** The record `[data, reader, noclear]` of one frame and the
result of each call. `clearData` is a call through the reader; without one it is
undefined, and the modules that call it go to `"crashed"`.

**InitFromFile.** `pc` alternates between the call of `getFrame` and the body of
the loop. The content of the backup is kept as ids and kept frames; a kept frame
remembers the block its data is read from. A statement that was executed already is
refused, as its row is there (`Executes`). `delivered` is a history variable: what the
loop handled, in order.

**FileEncryptor, ExportToFile.** `out` is the new file. `stage` and `next` are
where the exporter stands; an action is one `writeEncryptedFrame`. `skipped` and
`laundered` are history: where frames were left out because their data failed its MAC,
as list and index, and blocks whose data failed its MAC and was written nevertheless. A full disk cuts
`out` anywhere (`WriteFails`, external: the stream buffers).

**Session.** `main` for an input and an output: load, `dumpMedia`, attachments of
`exportHtml`, export. `Reopen` is a second run of the program, on what the first
one left on disk.

**BackupCopy, SessionImplements.** The abstract specification: frames are copied
in order, none but those with bad data is left out, and the copy ends complete or
broken off. The refinement maps the exporter's position to the sequence of frames
still to be written (`Remaining`) and `out` to the frames copied.

**Database.** Of the tables six are kept, one for every kind of link there is:
plain (`attachment.message_id`), to the own table (`message.original_message_id`),
inside a JSON value (`message.link_previews`), into a table whose UNIQUE
constraint makes an UPDATE fail (`message`, `group_membership`) or delete a row
(`reaction`, ON CONFLICT REPLACE), and SET_UNIQUELY. `Update` is what SQLite does:
it changes row after row and checks the constraint at each. Rows are ids and
values; besides its columns each carries `who`, what it stands for, which no code
reads. `Facts` says with these names what a backup says whatever its ids are. A
message has one date (`date_received` and `date_sent` are one), and a group is its
recipient (`groups` has no rows of its own).

**MakeIdsUnique.** `at` is the position in `s_databaselinks`; `SkipTable` and
`ShiftTable` are the two ways through the loop, `CloseGap` one round of the loop
of `compactIds`, `Compacted` its end. `source` is the copy of the source that is
cropped to the thread, `src` the source as it was opened.

**ImportThread.** One action per phase of `importThread`: `Incompatible` and
`SkipThread` (early returns), `Crop` (finding the thread of the target,
`cropToThread` with the cleaning it ends in), `MakeUnique`, `SetThread`,
`MatchRecipient` (one recipient of the target each, with `updateRecipientId`),
`DropExisting`, `Insert` (refused rows stay out, silently) and `checkDbIntegrity`.
When all threads are through, `ReorderDown` and `ReorderUp` are the two halves of
`reorderMmsSmsIds`. A failure ends the program unless `force`.

**MergedBackup, ImportImplements.** The abstract specification knows sets of
facts: an import adds all facts about one thread and takes none away. Avatars are
the exception: those of contacts the target knows stay as they are, and an import
into a thread that exists takes none over (`d_avatars.clear()`,
importthread.cc:691), so any subset of them may come along. The refinement maps
`target` to its `Facts`.

**CleanDatabase.** `ForeignKeys` are the columns the tables declare with REFERENCES,
which SQLite does not enforce here. `cleanDatabaseByMessages` deletes what belongs to
no message any more, in the order of the code (attachments, threads, groups and their
members, reactions, then recipients with their avatars, and data in memory): the
recipients that stay are those that the rows left by the statements before refer to.
`ThreadEntry` is what `updateThreadsEntries` computes anew for one thread.

**EditDatabase.** One action per operation, `pc` going through them in the order of
`main`: `removeDoubles`, `cropToDates`, `cropToThread`, `mergeRecipients`,
`mergeGroups`, `deleteAttachments` (or replacement), and the repair of foreign keys.
Two of them are loops. `mergeGroups` looks once for the thread of the last group
(`tid`), then `MergeGroup` merges one of the others into it, and `GroupsMerged` ends it.
Of the repair, `FindViolations` finds the violated keys, `DeleteViolations` takes one of
the keys found and deletes the rows that violate it by then. An operation
that fails ends the program unless `--force`. The body of a message is a sequence of
pieces (`Pieces`) of one UTF-16 unit each, with the position of one mention and that of
one format. A request to delete attachments says how many units its notes have
(`prepend`, `append`) and how many bytes (`bytes`): positions are moved by bytes, and a
format at the beginning, whose position 0 the code takes for none, is not moved
(`WithNotes`). `OpenedOk` is what a backup is opened with: tables with the columns used, data of
the size its row says, previews that are attachments of their message.
Addresses are a phone number or an `_id`, as `mergeRecipients` takes them. The tables
are those of `Database`, and `groups`, which here has rows of its own.

**UnpackedBackup.** `dir` maps names of files to their content: a list of text lines
(`.sbf`), data (`.bin`, `.new`), or the database. Names hold padded counts
(`AvatarKey`), and `Before` is the order in which the directory is read back. A text
file is lines as `setFrameFromLine` reads them, so a value with a line break is two
lines. `Load` is `initFromDir`, with the replacement of attachments: nothing else
touches the directory while it reads, hence an operator.

**ExportToDir.** One action per file; `stage` and `next` are where the exporter
stands. `Prepare` and `Clear` are `prepareOutputDirectory` and the deletion of what
`--overwrite` allows to delete, file by file in any order. A media frame is its `.sbf`
and, if that could be written, its `.bin`. `full` says that the disk is and stays full:
a file is then not made, or stays blank, the latter without the program being told, as
it asks the stream before it is flushed. The database is made in two steps:
`OpenDatabase` leaves a blank file (sqlitedb.h:280), which `FillDatabase` fills in one
transaction (copydb.cc:24-36); of a program stopped within it SQLite rolls back to the
blank file. A failure sets `exportok` to FALSE and the
next file is tried, as in the code. Avatars and stickers whose data cannot be had are
written from a null pointer, which the program may not survive (`Crash`). `AddNew` is
the user, who puts a `.new` file beside a finished export for `--replaceattachments`.

**OfferedBackup.** The abstract specification says what opening the directory at any
moment would give: what was in it with ever more missing, then nothing, while the
database is made perhaps a backup without rows (`Blank`), and in the end the new backup,
or what is left of it (`Left`) if a step failed.

**MessageRanges.** A body is bytes; a byte knows which character, entity or tag it is
the k-th of. Characters are classes, by what the code tells apart: their sizes in
UTF-8 (one to four bytes) and UTF-16 (one or two units), the ones HTML escapes, emoji,
the placeholder of a mention, what links are made of. Every tag has two bytes and
every entity five. `prepRanges` is translated case by case (`SameSpan`, `SameStart`,
`SameEnd`, `Crossing`, `Inside`), for the pair of neighbours the code comes to first.

**MessageBody.** `PrepareRanges` is one call of `prepRanges` (which calls itself until
nothing overlaps), `ApplyRange` and `NextCharacter` the two ways through an iteration
of `applyRanges`, then the passes `HTMLescapeString` and `HTMLemojify`. What a pass
moves, the ranges behind the position and `positions_excluded_from_escape`, is moved as
in the code.

## 3. The runs

| run | asks | result |
|---|---|---|
| `load` | any two blocks of a file damaged, or the file cut at any block, passphrase right or wrong; version 1, version 0 with the search, version 0 with `--stoponerror` and `--fulldecode` | holds |
| `session` | load, dump or HTML export, export, reopen; one damaged block; disk may fill, also in the last flush; data kept in memory or not | holds |
| `import_threads` | two threads, and one that does not exist, of three sources imported into any target that knows some of the contacts, by any of their numbers, and talks to some | holds |
| `edit_database` | any two editing operations on four backups, with and without `--force`, and the repair of any combination of five missing rows | holds |
| `export_to_dir` | four backups unpacked into a directory that is empty, holds an older backup or the input, with a disk that may fill up anywhere | holds |
| `message_body` | four texts with up to three styles on any stretches, a mention, a quote, a link | holds |
| `finding_*` | six statements of the documentation or comments | violated |

**Loads and sessions.** Two layouts of 8 and 10 frames contain every frame type, a
type no class is registered for, an attachment without data, a sticker twice under
one id, and two frames with data next to each other, so that damage to any two blocks
covers frame/frame, frame/data and data/data neighbours. `IvSpace` 40 with a first
counter of 36 puts the wrap inside every file, and leaves the counter values that the
search tries different from each other. The session uses one damaged block of any
kind in a backup of 13 frames, because its question is what a task does to a kept
frame, and that depends on one frame's data at a time. Cuts belong to `load` and come
back in `session` as `DiskFull`. Lengths are damaged there only in the layout whose sizes
are right: what both together do is the question of `load`. One statement is in that backup twice, so that a row is
written once and not once for each statement. `NameAvatars` are avatars keyed by NAME, which the
search cannot recover (section 4); `Recovers` leaves them out.

Properties of the load: `DeliversPrefix` (no gap before the end of a load that does
not search), `DeliversInOrder`, `ReadsOwnData` (a reader gets its frame's block and
the iv of that block), `EndMeansComplete`, `DeliversUntouched` (nothing before the
first damage is lost), `Recovers` (version 0: a frame that is whole is delivered as it was
written, unless a frame before it was accepted with a damaged length), `Terminates`.
Of the session: `OutputWellFormed` (every block under the counter the reader will
have), `DumpKeepsVerified` (without an HTML export no data is written that did not
verify), `WrongKeyWritesNothing`, `RoundTrip` (what reopening gives is what was
exported, but for the places left out because of bad data), `OutputReadable`, `ImplementsCopy`,
`SessionEnds`.

**Imports.** The sources number their rows from 1 on, with gaps, or against the order
of dates; each has a contact and a group, with members, an edited message, a link
preview, reactions to one message by two people, and avatars. The targets are all
combinations of contacts known, threads held and numbers known (42), and one pair of
incompatible backups. The premise of this run is the advice of the README
(README.md:671, 673): the input is the larger backup, so its ids reach as far as
those of the source and some message of it has a link preview; no message is in both;
no contact of the source is two in the target, and none has two avatars. The
premise is spelled out as `Mergeable` (`ImportImplements`), of which `Renumberable` is what
the links need; an ASSUME of `MCImport` checks it for every pair. What
happens to reactions without it is in `finding_reactions`. `force` is FALSE; the pair of incompatible backups is
the only import among these that fails.

`IdsApart` (a renumbered table shares no id with the target until it is inserted),
`LinksKept` (renumbering changes no meaning), `AvatarsDistinct` (nobody ends with
two), `InDateOrder` (messages are numbered by date from 1 on), `ImplementsImport` (the
result is the union, nothing of the target is lost) and `ImportEnds`.

**Edits.** Nine messages: an edited one and its revision, two that say the same within
two time units, a quote, a link preview, a silent one, and messages of two groups and
of the old and the new number of a contact, at the same time or not. Two operations
at once, because the hazard is what one of them leaves for the next; of groups up to
three at once, as the thread they go into is looked up once. `Second` is 2,
so that the last second of a range given in words reaches past it. The missing rows
are a recipient with messages, one with a group, a thread, an original message and a
message with reactions: deleting what refers to each breaks something else.

`ReferencesHold` (references between threads, messages, recipients, reactions and
groups that held still hold after each operation, unless groups to be merged have
messages of the same time or one of them is named twice), `NothingElseLost` (a message is gone
for one of the reasons given only; with its attachments only if it had no text, was left
no note, and it and all of its attachments are within the limits of one request:
`NothingButListed`), `KeptIsWhole` (what is left after cropping has its
sender, quote, attachments with data, reactions, members, pictures; for backups whose
messages are in threads and whose pictures are of recipients, whatever else is missing),
`OneCopyStays` (of doubles the last one stays, unless it is a revision), `CountsRight` (the thread table agrees with the messages, if the last
operation that changed them is one that refreshes it), `AttachmentsMatch` (no data in
memory without a row of that size, no preview of an attachment that is gone),
`MentionsInPlace` (a mention and a format stay with their text when notes on deleted
attachments are put in front of it, if the notes have one byte for each unit and the format
does not start with the body; section 4),
`MergeByIdDone` (nothing is from, to, or about a recipient merged into one given by its
`_id`), `FixedExactly` (the repair deletes the least set of rows that leaves no
violation) and `AutofixEnds`.

**Unpacking.** `Base` 2 makes two avatars enough for a count that needs padding. The
backups have an attachment without unique id, damaged data, data without size, rows
without data, and no version frame. A full disk stays full, and the database, the
largest of the files, never fits on it. `NotOpenedHalfway` (a directory the program
stopped in half-way is not opened or, stopped while it fills the database, at most as a
backup without rows; section 4), `UnpackedIsWhole` (a successful export loads as the
backup), `ReplacedAlike` (whichever data an attachment gets, that of its `.bin` or of a
`.new` in its place: the length in its frame and what its row says are those of that data)
and `ImplementsOffer`.

**Bodies.** The first text has a character to escape, an emoji of two units, a
placeholder of three bytes and a character of two; every triple of stretches occurs as
bold, spoiler and italic, so that all cases of `prepRanges`, breakable and not, occur
in all orders. `Renders`: when all is done, every character is in its place, in the
elements it was styled with, and nothing is left unescaped. It demands this of a body
with crossing ranges only if it has no more than these two, as the code says of case 4
that it "does not seem to be allowed in Signal", and of links with at most one `#`
(section 4). `PrepEnds`: `prepRanges` stops calling itself.

Fairness. `WF(LoadNext)`, `WF(SessionNext)` and `WF(Next)` of an import and of a body:
a sequential program takes its next step. Of the edits only the repair has a loop, and
fairness is assumed of its two actions together. None is assumed of single actions of
the others, and none of `ExportToDir`, of which nothing is claimed that needs it.

Deadlock is not checked: a program that has ended stops.

## 4. What disagrees with the documentation

With a run that shows it:

* `finding_stale_corrupt_data`: data that failed its MAC stays in the cache after
  a failed HTML write and is exported under a new, valid MAC.
* `finding_reactions`: `reaction.message_id` is moved by an UPDATE under
  UNIQUE(`message_id`, `author_id`) ON CONFLICT REPLACE. With a small offset a
  reaction runs into one of the same author to a later message, which is deleted.
  The flag made for this, SET_UNIQUELY, is set for `identities` and not here.
* `finding_edit_references`: `cropToDates` leaves the links between revisions of a
  message pointing at messages that are gone (croptodates.cc:81); `mergeGroups` deletes
  the thread of the old group also when the UPDATE that was to empty it was refused,
  because of messages of the same time.
* `finding_merge_numbers`: `mergeRecipients` tests `r_ids[0]` for both addresses, so a
  second phone number is never looked up; nothing is merged and success is returned.
* `finding_line_break`: a preference with a line break in its value ends the list of
  preferences that is read back from a directory.
* `finding_tags_nest`: of a range that was cut behind a shorter one, the rest has only
  a closing tag. If another range covers exactly this rest, the two are merged as if
  both opened there, and the outer tag is closed before the inner.

Met while translating, without a run of their own:

* `AvatarFrame::validate` refuses avatars keyed by NAME (avatarframe.h:257), against
  its own comment (avatarframe.h:250), so the search never recovers one. `NameAvatars`
  models it.
* `--fulldecode` calls through a null reader for a frame that was returned in spite of
  its MAC (initfromfile.cc:116).
* `makeIdsUnique` asks the target what type `link_previews` has and then changes the
  source (makeidsunique.cc:65); when the target has none, the previews of the source
  are left at numbers their attachments no longer have.
* `thread.snippet_message_id` is in the list of links (statics.cc:87) but not among the
  columns `reorderMmsSmsIds` takes along, nor is it set anew afterwards.
* A second `#` in a link makes the range of the link longer by two for each
  (htmllinkify.cc:102), over text behind it; at the end of a body the closing tag is
  lost. `Renders` is checked with one `#`.
* `HTMLemojify` compares positions that escaping has moved with positions that were
  not moved along (htmlprepmsgbody.cc:183), so an emoji behind an escaped character may
  be left without its span. `Renders` asks for the spans only if nothing was escaped.
* `removeDoubles` keeps the later of two copies and then deletes revisions of messages that
  are gone (removedoubles.cc:150), so that if the later copy is a revision of a message
  that was a double itself, no copy stays. `OneCopyStays` leaves revisions out.
* `mergeGroups` deletes the thread of each of the groups before the last. If the last one
  is named twice, it deletes the thread that it merges into.
* A frame whose length was damaged and is larger now can still be decoded, trailing
  bytes are not looked at (initbackupframe.cc:47-69), and the stream goes on behind that
  length (getframe.cc:317), past frames that are whole. A search from inside a block may
  then try too few values of the counter (getframebrute.cc:88) for the frames that follow.
  `Recovers` leaves out what lies behind such a frame.
* A note in front of a body moves every range by its bytes (deleteattachments.cc:171, 183)
  where ranges count UTF-16 units, and does not move a range without a start (line 168),
  as a format from the beginning is (htmlprepmsgbody.cc:63): it is then on the note.
  `MentionsInPlace` leaves out both.
* `saveToFile` makes an empty database before it fills it (sqlitedb.h:280, 338), as the
  last step of unpacking. A program stopped between leaves a directory that `initFromDir`
  opens, without a word, as a backup without rows (initfromdir.cc:74, 300).
* Two crossing ranges and a third one over them may lose the reopening of one of them,
  or nest wrongly (applyranges.cc, case 4).

## 5. What is proved

Theorems hold for every value of the constants: files, backups, commands, lists of
threads of any size and number. Each component has its inductive invariant, and the
theorems are read off it. The named assumptions are all that is assumed: the files are
well formed before they are damaged (`LoadAssumption`: every block under its counter,
data behind its frame, an end frame only as the last block), a block a file is cut in is
its last (`CutAssumption`), rows are numbered from 1 and
have the columns that are used (`ImportAssumption`, `EditAssumption`), data in memory
belongs to a row, and tables satisfy the UNIQUE constraints they are declared with
(`DeclaredOk`). TLC evaluates them for the instances of the runs.

**Loads.** `Load_proofs` has `TypeCorrect` (`TypeOK` is inductive; one lemma per
helper of the decryptor, one step per action of the loop) and `PrefixDelivered`, for
loads that do not search. `DeliversPrefix` is not inductive, as it says nothing of where
the stream is; `NothingSkipped` adds that before a call the stream stands at the block
behind the last one delivered, or at none (`StandsAtNext`), and after a call the frame is
the one of that block (`ReturnedNext`). What holds of searching loads
too, each with an invariant of its own:

| theorem | property | what the invariant adds |
|---|---|---|
| `NeverGoesBack` | `DeliversInOrder` | `Forward`: all that was delivered lies before the stream and has a number below `d_framecount`, and so does the frame in hand |
| `DataIsItsOwn` | `ReadsOwnData` | `OwnData`: the same of the frame in hand. Its core is `DataBehind`, arithmetic of the counter: what is decrypted with the iv of a frame has the next iv as its data, also where the 32 bits wrap (`NextIv`) |
| `NothingMissing` | `EndMeansComplete` | `Complete`: all blocks before the next one were delivered as written, and an end frame was read only if it is the last |
| `UntouchedIsDelivered` | `DeliversUntouched` | `NoLossWithKey`: before damage the stream is at a frame, and `d_counter` at its value (`OnTrack`) |
| `WholeIsRecovered` | `Recovers` | `NothingLostWhileRecovering`, see below |

`WholeIsRecovered` follows the search. Before each call either the stream is on course
and all that is whole before it was recovered, or all that is whole in the file was, or
lies behind a frame accepted with a damaged length (`Settled`). On course (`OnCourse`)
means at the first byte of a block, with a `d_counter` that agrees with its iv in the 32
bits (`Counted`). Then no whole frame is at the stream when a search starts
(`NothingWholeHere`), and every one behind it is found, as the counter is reached in the
tries there are (`WholeIsFound`, from `IvBehind`): so the search ends at the first or
before it, passes over none, and the counter is right again (`SearchKeeps`). A frame
accepted with a damaged length takes along what is behind it (`Took`), after which there
is nothing to show: what it took is what `Overshot` leaves out of `Recovers`. A load that
gives up has nothing whole behind it (`NothingBehindCut`, `VerifiedKeeps`).

**Sessions.** `SessionInv` of `Session_proofs` is the types of the load with those of what
it keeps (`ContentOK`), the output (`OutputOK`: well formed, and as long as the exporter
is writing, `e_counter` is that of its end, so that a block can follow: `Continues`), the
place in the task (`PlaceOK`), and that the row being written is there (`RowOK`). It gives
`SessionTypeCorrect` and `OutputAlwaysWellFormed`, and carries three more:
`NothingWrittenWithoutKey` (`NoVersion`: without the key no version frame is ever read,
and nothing is written before it), `OnlyVerifiedIsWritten` (`CleanSoFar`: no data still
to be written is cached as corrupted; it needs that no row of the database is listed
twice, `RowsDistinct`, as the first writing would leave its data for the second), and
`ReopenedIsReadable` (`Readable`: frames are those of the file, only the last block of
the output can be damaged, and in the second run that output is the file).

That a session implements `BackupCopy` is `ExportIsACopy` of `SessionImplements_proofs`.
Each action of the session is a step of the copy or leaves the mapped state alone (one
lemma per action, `LoadCopies` to `FailureCopies`). Two things carry it. `Remaining` is
computed from the end of the lists, and the lemmas say how it begins: with the row and
its data, then the rest (`RemainingRows`), or with the next element of the list being
written, and behind the last one with the next list (`RemainingParts`); it is empty only
after the end frame (`Unfinished`), and caching or dropping data does not change it
(`RemainingStays`). `FramesIn(out)` grows by the frame written, data or not
(`WritesFrame`, `WritesFrameWithData`); of a file cut off by a full disk the frames are the
first of those written, and none is an end frame (`FailedWriteBegins`, so that a last flush
that fails never counts as complete). To `SessionInv` the invariant adds `CopyPlace`: the
index is at most one behind the list, and data is written only behind a row of its table.

`ExportedIsReloaded` (`RoundTrip`) is in the same module. What a sequence of blocks would
put together when it is loaded is a fold over it (`LoadedBy`), and so is what the load has
done of it so far. Two invariants meet at `Reopen`. In the first run (`LoadableOutput`),
at every place of the export, what has been written is what loading it would put together:
the statements up to `next`, the data of so many of their rows, so many preferences, key
values and avatars, without the places left out (`Written`, one lemma per action,
`VersionLoads` to `StartLoads`). It needs that no statement is there twice, or loading
would execute one and the export would write the data of two (`RowsDistinct`), that data
is kept under its own id, or the second load would drop it (`KeyedById`), and that nothing
is left out ahead of the export (`Ahead`). An output has an end frame only if it is
complete: of a write that fails, a beginning without it is left. In the second run
(`SecondLoad`) what is in memory is what loading the blocks before the stream puts together
(`LoadedSoFar`), and what loading all of them does is what was exported (`Matches`). That
no frame is skipped on the way is `NoLossWithKey`, the invariant behind
`UntouchedIsDelivered`, applied to a file without damage (`WholeFileGets`).

**Imports.** Sharing no id is not inductive: closing a gap moves a row to the id behind
one in use, of which disjointness does not say that it is free in the target. `IInv` of
`ImportThread_proofs` says more: all ids of a renumbered table are above all of the
target's (`Above`). `MinimumIdDomain` shows that renumbering by way of negative numbers
moves every row by the same distance, `UpdateDomain` and its successors that no statement
about links adds a row, `CloseGapIds` that gaps are closed from below. `NoIdTaken`
(`IdsApart`) follows. `OneAvatarEach` (`AvatarsDistinct`) rests on `FramesInv`: frames
have their rows while tables are renumbered, and while recipients are matched nobody has
an avatar under the `_id` of one that is yet to be matched. Its premise is that nobody
has two in either backup. `OrderedByDate` (`InDateOrder`) rests on `MessagesInv`: between
the halves of the reordering the messages are at -1 to -n in the reverse order
(`Reversed`). That the places assigned are a numbering is `PlacesDiffer` and
`PlacesFill`. `ImportTypeCorrect` combines them with `MainOk`.

`LinksStay` (`LinksKept`) is a theorem about the backups that are `Renumberable`, of any
size and number: the rows of the source have the columns and keep the UNIQUE constraints
of their tables; what a thread cropped from it refers to came along; the ids of messages
and recipients of the target reach as far as those of the source; and if the source has
a preview, the target has one too. Without the last two it is false
(`finding_reactions`, and the previews in section 4). `Renumbers` says that one function
takes table `t` to its new ids and that every column that refers to `t`, the data of
attachments and the avatars go with it; such a step changes no fact (`FactsStay`) and
keeps what the next one needs (`RowsStayOk`, `ReferencesStayWithin`, `ThreadStaysOne`,
`NoPreviewAppears`). Two lemmas show that the code takes such steps:
`ShiftTableRenumbers`, for either way it has of shifting a column, and
`CloseGapRenumbers`. Their core is `UpdateMapped`: an UPDATE displaces no row when it
takes no two values to one and none to one that is there. A reference of messages or
recipients that is under a UNIQUE constraint goes beyond all that are there
(`Outgrown`), one to a closed gap to an id nothing refers to, and references to threads
are all the same one. That the table is still to be renumbered when it needs `Outgrown`
is `LinksInv`, which the other steps keep.

`ImportIsAMerge` of `ImportImplements_proofs` (`Spec => ImplementsImport`) is that every
import of backups that are `Mergeable`, of any size and with any list of threads that names
none twice, refines `MergedBackup`: `Incompatible` and `SkipThread` are `Skip`, `Insert` is
`Import`, and no other step is seen. What a backup says is `Facts`, in names instead of ids,
so all rests on when a row still says the same. Besides `Renumberable`, `Mergeable` asks
that

* the target keeps its constraints and has what its rows refer to; rows of the source, and
  the recipients of the target, have names of their own, and threads the names of their
  recipients (`RowsNamed`, `UniqueNames`, `ThreadsNamed`, `GroupsNamed`). This is what makes
  names stand for rows, and none of it is about the code;
* recipients of the two backups share an identifier when they are the same and only then
  (`KnownApart`): the matching goes by `aci`, `e164` and `group_id`;
* no message is in both (`Coincide`): an INSERT is refused without a word when it is, and
  the edits and attachments of the message would go to no row.

The invariant, `MergeInv`, says at each stage what the copy of the source is:

| stage | the copy | lemmas |
|---|---|---|
| after `Crop` | says its `Part` of the source (`CropSaysPart`); renumbering keeps that (`LinksInv`, `FactsStay`) | `CropStartsCopy`, `MakeUniqueKeepsCopy` |
| after `SetThread` | its ids are apart from the target's, its references reach rows of either (`Coming`), and what it says when joined with the target is the part, but for what the target says already (`Brought`). `FoundThread` is the thread of the same name or there is none (`FoundIsNamed`, `NotFoundIsNotThere`) | `UniqueComes`, `SetThreadStarts` |
| while recipients are matched | the same; nothing refers to a recipient that is yet to be matched, nor to a double of one that has been (`Matching`) | `MatchKeeps` |
| before `Insert` | nothing in it is known to the target (`Inserting`): the rows that `DropExisting` takes out were doubles or known, and nothing needs them (`OnlyNeeded`) | `DropKeeps` |
| `Insert` | every row is accepted and replaces none (`AllKeysApart`), so the target is the two joined, and can be imported into again | `InsertJoins`, `JoinedSays`, `JoinedInto` |
| between the halves of the reordering | every reference to a message goes with it (`Reordered`), and no reaction meets another on its way back, as all are below zero (`UpdateRestores`) | `ReorderDownReorders`, `ReorderUpReorders` |

That no message coincides with one that came with a thread before is `ComesOnce`: a message
that comes is of its thread, and no thread comes twice. A snippet may be left behind by the
reordering (section 4); it is no fact.

**Edits.** `EditInv` of `EditDatabase_proofs` says that what was true of the backup when
it was opened (`OpenedOk`) is true after each operation; each operation has a lemma on
what it keeps and one on its effect (`RemoveDoublesEffect` and so on), which the theorems
share.

| theorem | property | argument |
|---|---|---|
| `EditTypeCorrect` | `EditTypeOK` | `EditInv` |
| `AttachmentsAlwaysMatch` | `AttachmentsMatch` | `DataOk` and `PreviewsOk` of `EditInv`: a preview is an attachment of its own message, or deleting another message would take it away |
| `MentionsStay` | `MentionsInPlace` | `NotesMove`, for any number of notes in any number of rounds: they add as many pieces in front as they move positions by. Positions of the opened backup lie in their bodies (`PositionsOk`) |
| `OnlyAskedForIsLost` | `NothingElseLost` | `LossInv`: until attachments are deleted, text, dates, attachments and revisions are those of the opened backup; `JoinInv`: each message is in the thread it was in, or in one it is merged with. So those that deleting attachments finds without any had all of theirs listed |
| `ThreadsCounted` | `CountsRight` | `CountInv`, from the operation that counts to the end |
| `KeptStaysWhole` | `KeptIsWhole` | `OnlyFewer` says what the three operations have in common; `SaysTheSame` that then a message says what it said. It needs that messages are in threads (`PlacedInv`), and nothing else of the other references |
| `OneOfDoublesStays` | `OneCopyStays` | the last of the copies, of any number, is no double (`GreatestElement`) |
| `RepairIsExact` | `FixedExactly` | `FixInv`: only doomed rows were deleted. The doomed are the least fixpoint of `Dangling` (`DoomedIsLeast`), so when nothing dangles any more, all of them are gone |
| `ReferencesStay` | `ReferencesHold` | see below |
| `MergedByIdIsDone` | `MergeByIdDone` | when no two messages are of the same time, no UPDATE is refused (`SetGoesThrough`), so each of the renamings leaves nothing of the old number (`RenamedAway`). Of one that had been cropped away there was nothing left (`NotSpokenOf`) |

The two on merging turn on what SQLite refuses. `UPDATE message SET
thread_id` changes all rows or, if two messages would then have thread, sender and time
in common, none (`SetOfMessages`). The model says which rows an UPDATE displaces as a
least fixpoint; that it displaces none only if no two rows meet is shown by the choice a
table makes in the order of its rows (`GreedyChoice`, `NobodyMet`). A refused UPDATE is
harmless to the references unless `mergeGroups` then deletes the thread that was to be
emptied. So `RefInv` carries three things: the references, column by column (`Sound`);
what is left of the opened backup's declarations, recipients and threads (`Origin`);
and that no two messages of the threads to be joined are of the same time (`Apart`).
From the last it follows that a group's UPDATE goes through, and that its thread is empty
when it is deleted (`MovedEntirely`, `LinkedGroup`). `mergeRecipients` runs before and moves
messages between threads too, so `Apart` has to be asked of its threads as well
(`Merged`); and a group named twice is merged into itself (section 4). Those are the
premises of `ReferencesHold`, asked only where there are groups to merge.

**Unpacking.** `ExportToDir_proofs` has all four properties of the run, for backups with
lists of any length, any directory and command, any failures of the disk, and counts
written in any base. Assumed of a backup in memory is what its members are
(`BackupsAssumption`: the attachments are a map by both ids, the stickers by one, avatars
and preferences are vectors). Three invariants carry it:

* `IInv`: while the export is at one of the stages before its last (`Halfway`), there is no
  database, and at the last (`"filling"`) at most a blank one. Clearing establishes it,
  each file keeps it, and only the last two stages make one (`StageOrder`,
  `OpenedIsBlank`). `NothingWithoutDatabase` and `BlankGivesNoRows` lead back to `Load`:
  `OpensOnlyAtTheEnd`.
* `HeldInv`: what the directory holds of the backup at each stage while the disk is not
  full (`ContentsAt`): of each list as many files as were written (`Count`), each with its
  own frame and data, the data of an export that failed possibly short, and no other
  frame of the kind. That no file overwrites another rests on the names: keys of one list
  differ (`KeysAreDistinct`), kinds differ, and counts padded to one width sort as they
  count (`AvatarKeysAre`, over lemmas on digits). Once the export is done, `Load` is
  evaluated over it: preferences are read up to the last (`NumberedWhole`), the sorted
  names of the avatars are their list (`AvatarsAre`; a strict order has one enumeration),
  and maps drop none of the attachments (`EachGot`). This gives `UnpackedWhole`, under the
  premise that no preference has a line break (`WithoutBreaks`; without it the property
  is false, `finding_line_break`), and `ReplacedDataAlike`, under the premise that no two
  attachments share an id and the rows tell of the data in memory (`RowsTell`).
* `DirInv`: what a directory is whatever failed: before it is cleared a backup or part of
  one (`Former`: its frames are apart and its avatars of one list), afterwards with no
  avatars but those of the backup, without a header after `--onlydb`, with at most a blank
  database on a full disk.

`OfferImplemented` (`Spec => ImplementsOffer`, with `WithoutBreaks`) goes by the actions:
removing a file leaves a part of what was offered (`PartWithin`: preferences up to the
first gap, the avatars that are left in their order, attachments without their data);
while frames are written nothing is offered, and behind `OpenDatabase` a backup without
rows or nothing (`IInv`, `OpenOffers`); what the last step (`FillOffers`) leaves is `Whole`,
or of a failed export what `MayBeLeft` allows (`LeftInTheEnd`, from `HeldInv` where the
disk was not full and from `DirInv` where it was); a `.new` file changes nothing that is
read (`LoadBeside`).

The model has `Power` as a function, `Sorted` as a choice among enumerations and the files
of a backup as one set (`Files`), so that these proofs can speak of them.

**Induction.** The induction theorems of the library take an operator as a parameter,
which the installed provers cannot instantiate. `Induction` states what is needed with
sets in its place: a set of numbers that has 0 and with each number the next has them all
(`SetInduction`), some numbers have a least one, finitely many a greatest, a function is
defined by its first value and a step (`Iterates`, up to a bound `Recursion`), and the rounds of a monotone step end
in its least fixpoint (`LeastFixpoint`).

**Only model-checked**, and why:

* Liveness (`Terminates`, `SessionEnds`, `ImportEnds`, `AutofixEnds`, `PrepEnds`): beyond
  the prover.
* `Renders`: what the passes over a body compute for texts of any length.

## 6. What is not modelled

`--editattachmentsize` and `--assumebadframesizeonbadmac`; failures of OpenSSL;
the bytes of frames, and frames of more than 3 MB, which the search does not look for
(getframebrute.cc); memory. Of an import: databases before version 185 (two
tables of messages, other link lists), stickers, calls, distribution lists,
mentions and remapped recipients. Of the edits: the table `sms`, mentions in a table of
their own, polls, calls, stickers, distribution lists, `thread.snippet_uri`. Of unpacked
backups: the version 2 layout (behind a build option); a `.bin` file shorter than its
frame says, whose rest `encryptAttachment` reads from behind the data
(writeencryptedframe.cc:83). An input inside the output directory is deleted by
`--overwrite`, as usage.cc says ("delete ALL directory contents"): nothing in the code
keeps it, and no property asks for it; what is checked is that the export then fails, and
that what it leaves does not pass for the backup. Of bodies: which
texts are links (a regular expression) and emoji (a table), punctuation behind links,
the lengths of tags.

The foreign sources (Desktop, Telegram, plaintext, adb) are long translations of
schemas, statement after statement, with little state between them. Layout and wording
of the exports, the tables of constants and emoji, the argument parser (generated),
logging, generated protobuf typedefs and version 2 backups are left out. They are most
of the lines of the repository.

## 7. Plan

1. (done) decryptor, load, encryptor, export, session, `TypeCorrect`,
   `PrefixDelivered`.
2. (done) `importThread` with `makeIdsUnique`, `compactIds`, `cropToThread` and
   `reorderMmsSmsIds`; `NoIdTaken`.
3. (done) the editing operations of `main` and the repair of foreign keys.
4. (done) `exportBackupToDir` and `initFromDir`.
5. (done) the bodies of messages.
6. (done) theorems: all safety properties of loads, of sessions, of the edits and
   of unpacking and of imports. The export implements `BackupCopy`, unpacking
   `OfferedBackup`, an import `MergedBackup`. Next: that one step of `prepRanges` leaves
   pieces of the same stretch; and an import of backups that share messages, for which
   `MergedBackup` would have to say what becomes of those that are refused.
7. The varint codec and the CSV reader as functions, against reference definitions;
   the insertion step of the import from Desktop.
