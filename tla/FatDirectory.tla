------------------------------ MODULE FatDirectory -----------------------------
(***************************************************************************)
(* Names: the validation of a path (fs/file.c), its parts (fs/pparser.c),    *)
(* the 8.3 entries of directories, the search for a name and for a free      *)
(* entry (fs/fat/fat16.c).  A directory is the root, of which the kernel     *)
(* keeps a copy, or a chain of clusters.  Entries may be deleted, labels or  *)
(* pieces of a long name; the first byte of an unused one is 0 and ends the  *)
(* directory.                                                                *)
(*                                                                           *)
(* One step is one call of file_open.  A read that fails changes nothing and *)
(* is left out; an entry's write may fail.  What a file holds is Fat16's.    *)
(***************************************************************************)
EXTENDS Integers, SequencesExt

CONSTANTS
  NameSize, ExtSize,  \* sizeof(filename), sizeof(ext)
  MaxPath,            \* RORTHOX_MAX_PATH
  Plain,              \* characters of names
  Lower,              \* of each capital letter: the small one
  RootEntries,        \* root_dir_entries
  SlotsPerCluster,    \* entries in a cluster
  cluster_limit,      \* fat16_cluster_limit: the last cluster
  Volumes,            \* what may be on the disk: the entries and the FAT
  Paths,              \* what programs open, without the "0:/"
  MaxOpens            \* bound: paths remembered

ASSUME NamesAssumption ==
  /\ {NameSize, ExtSize, MaxPath, RootEntries, SlotsPerCluster} \subseteq Nat \ {0}
  /\ cluster_limit \in Nat \ {0, 1}
  /\ Plain \cap {".", "/", " ", "NUL", "E5"} = {}

VARIABLES
  media,              \* of each place: the entry there
  fat,                \* of each cluster: the next one, or EOC
  root_directory,     \* the copy of the root's entries, and total
  disabled,           \* mutation_disabled
  opened              \* history: the paths that file_open has opened, and where their entries are

directoryVars == <<media, fat, root_directory, disabled, opened>>

NUL     == "NUL"
DELETED == "E5"
EOC     == 0
Root    == 0
Clusters  == 2 .. cluster_limit
RootPlaces == [i \in 1 .. RootEntries |-> <<Root, i - 1>>]
Places == ToSet(RootPlaces) \cup (Clusters \X (0 .. SlotsPerCluster - 1))

-------------------------------------------------------------------------------
(* Paths *)

\* One turn of file_validate_path's loops: a character of a part, or the end of one.
PartEnds(s) == s.base > 0 /\ (s.dot => s.ext > 0)

CheckCharacter(s, c) ==
  LET part == [base |-> 0, ext |-> 0, dot |-> FALSE, ok |-> TRUE]
      bad  == [s EXCEPT !.ok = FALSE]
  IN  CASE ~ s.ok -> s
        [] s.ok /\ c = "/" -> IF PartEnds(s) THEN part ELSE bad
        [] s.ok /\ c = "." -> IF s.dot \/ s.base = 0 THEN bad ELSE [s EXCEPT !.dot = TRUE]
        [] s.ok /\ c \notin Plain \cup {"/", "."} -> bad
        [] s.ok /\ c \in Plain /\ s.dot -> [s EXCEPT !.ext = @ + 1, !.ok = s.ext < ExtSize]
        [] s.ok /\ c \in Plain /\ ~ s.dot -> [s EXCEPT !.base = @ + 1, !.ok = s.base < NameSize]

file_validate_path(path) ==
  LET s == FoldLeft(CheckCharacter, [base |-> 0, ext |-> 0, dot |-> FALSE, ok |-> TRUE], path)
  IN  Len(path) + 3 < MaxPath /\ s.ok /\ PartEnds(s)

\* The parts, up to one that is empty.
RECURSIVE pathparser_parse(_)
pathparser_parse(path) ==
  LET slashes == {i \in DOMAIN path : path[i] = "/"}
      n == Min(slashes \cup {Len(path) + 1})
  IN  IF n = 1 THEN <<>> ELSE <<SubSeq(path, 1, n - 1)>> \o pathparser_parse(SubSeq(path, n + 1, Len(path)))

-------------------------------------------------------------------------------
(* Names *)

tolower(c) == IF c \in DOMAIN Lower THEN Lower[c] ELSE c
toupper(c) == IF c \in Range(Lower) THEN CHOOSE u \in DOMAIN Lower : Lower[u] = c ELSE c

\* Two names are the same, but for the case.
istrncmp(s, t) == Len(s) = Len(t) /\ \A i \in DOMAIN s : tolower(s[i]) = tolower(t[i])

\* Up to the first blank, or all of the field.
fat16_to_proper_string(field) ==
  LET ends == {i \in DOMAIN field : field[i] \in {NUL, " "}}
  IN  SubSeq(field, 1, Min(ends \cup {Len(field) + 1}) - 1)

fat16_get_full_relative_filename(entry) ==
  fat16_to_proper_string(entry.filename) \o
  IF entry.ext[1] \in {NUL, " "} THEN <<>> ELSE <<".">> \o fat16_to_proper_string(entry.ext)

\* The characters of a part on either side of the dot, as capitals, blanks after them.
Padded(s, size) == [i \in 1 .. size |-> IF i <= Len(s) THEN toupper(s[i]) ELSE " "]

\* Mutant: the extension takes only the characters that fit after the name.
ShortEntry_Joined(part) ==
  LET dot == Min({i \in DOMAIN part : part[i] = "."} \cup {Len(part) + 1})
  IN  [filename |-> Padded(SubSeq(part, 1, dot - 1), NameSize),
       ext |-> Padded(SubSeq(part, NameSize + 2, Len(part)), ExtSize), attribute |-> "file", cluster |-> EOC]

ShortEntry(part) ==
  LET dot == Min({i \in DOMAIN part : part[i] = "."} \cup {Len(part) + 1})
  IN  [filename |-> Padded(SubSeq(part, 1, dot - 1), NameSize),
       ext |-> Padded(SubSeq(part, dot + 1, Len(part)), ExtSize), attribute |-> "file", cluster |-> EOC]

-------------------------------------------------------------------------------
(* Reading directories *)

IsEnd(entry) == entry.filename[1] = NUL
IsDeleted(entry) == entry.filename[1] = DELETED
fat16_is_lfn(entry) == ~ IsEnd(entry) /\ ~ IsDeleted(entry) /\ entry.attribute = "lfn"

\* The places that fat16_directory_next goes through from a cluster on, and whether the
\* chain ends there as it should.
RECURSIVE Walk(_, _)
Walk(cluster, clusters) ==
  LET own  == [i \in 1 .. SlotsPerCluster |-> <<cluster, i - 1>>]
      next == fat[cluster]
  IN  IF next = EOC THEN [places |-> own, broken |-> FALSE]
      ELSE IF next \notin Clusters \/ clusters + 1 > cluster_limit - 1 THEN [places |-> own, broken |-> TRUE]
      ELSE LET rest == Walk(next, clusters + 1)
           IN  [rest EXCEPT !.places = own \o @]

\* The same for a directory, with what is read at each place.
fat16_directory_next(cluster) ==
  IF cluster = Root THEN [places |-> RootPlaces, entries |-> root_directory.item, broken |-> FALSE]
  ELSE LET w == Walk(cluster, 1)
       IN  [places |-> w.places, entries |-> [i \in DOMAIN w.places |-> media[w.places[i]]],
            broken |-> w.broken]

\* Where the entries of a directory end: at the first unused one, or where its places do.
EndOf(entries) == Min({i \in DOMAIN entries : IsEnd(entries[i])} \cup {Len(entries) + 1})

Total(entries) == EndOf(entries) - 1

NoDirectory == [err |-> "EIO", first_cluster |-> Root, item |-> <<>>]

\* A directory in memory: its first cluster and the entries before the end.
fat16_load_fat_directory(cluster) ==
  LET d == fat16_directory_next(cluster)
  IN  IF cluster \notin Clusters \/ (d.broken /\ EndOf(d.entries) > Len(d.entries))
      THEN NoDirectory
      ELSE [err |-> "OK", first_cluster |-> cluster, item |-> SubSeq(d.entries, 1, Total(d.entries))]

\* The root as it is in memory: total entries of the copy.
RootDirectory ==
  [err |-> "OK", first_cluster |-> Root, item |-> SubSeq(root_directory.item, 1, root_directory.total)]

\* The cluster that holds an entry, by its number.
fat16_get_cluster_for_offset(cluster, i) ==
  LET ahead == i \div SlotsPerCluster
      step[n \in 0 .. ahead] == IF n = 0 THEN cluster
                                ELSE IF step[n - 1] \in Clusters THEN fat[step[n - 1]] ELSE EOC
  IN  IF ahead < cluster_limit - 1 THEN step[ahead] ELSE EOC

Failed(err) == [err |-> err, type |-> "none", pos |-> <<Root, 0>>, directory |-> NoDirectory]

Named(entry, name) ==
  /\ ~ IsDeleted(entry)
  /\ entry.attribute \notin {"label", "lfn"}
  /\ istrncmp(fat16_get_full_relative_filename(entry), name)

fat16_find_item_in_directory(directory, name) ==
  LET hits == {i \in 1 .. Total(directory.item) : Named(directory.item[i], name)}
      i == Min(hits)
      cluster == IF directory.first_cluster = Root THEN Root
                 ELSE fat16_get_cluster_for_offset(directory.first_cluster, i - 1)
      pos == IF cluster = Root THEN <<Root, i - 1>> ELSE <<cluster, (i - 1) % SlotsPerCluster>>
      below == fat16_load_fat_directory(directory.item[i].cluster)
  IN  IF hits = {} THEN Failed("ENOENT")
      ELSE IF directory.first_cluster # Root /\ cluster \notin Clusters THEN Failed("EIO")
      ELSE IF directory.item[i].attribute # "directory"
           THEN [err |-> "OK", type |-> "file", pos |-> pos, directory |-> NoDirectory]
      ELSE IF below.err # "OK" THEN Failed("EIO")
      ELSE [err |-> "OK", type |-> "directory", pos |-> pos, directory |-> below]

RECURSIVE Descend(_, _)
Descend(directory, parts) ==
  LET item == fat16_find_item_in_directory(directory, parts[1])
  IN  IF item.err # "OK" \/ Len(parts) = 1 THEN item
      ELSE IF item.type # "directory" THEN Failed("EIO")
      ELSE Descend(item.directory, Tail(parts))

fat16_get_directory_entry(parts) == Descend(RootDirectory, parts)

-------------------------------------------------------------------------------
(* Creating *)

\* Mutant: an entry after a piece of a long name is taken.
Reusable_AfterLong(entries, i) == IsDeleted(entries[i]) /\ entries[i].attribute # "lfn"

\* A deleted entry that is no piece of a long name and does not follow one.
Reusable(entries, i) ==
  /\ IsDeleted(entries[i]) /\ entries[i].attribute # "lfn"
  /\ i = 1 \/ ~ fat16_is_lfn(entries[i - 1])


\* The entry that ends the directory may be used: no long name waits for it, and the
\* directory still ends after it.
Extendable(d, end) ==
  /\ end = 1 \/ ~ fat16_is_lfn(d.entries[end - 1])
  /\ IF end = Len(d.entries) THEN ~ d.broken ELSE IsEnd(d.entries[end + 1])

\* The place for a new entry, or why there is none.
FindSlot(d) ==
  LET end  == EndOf(d.entries)
      free == {i \in 1 .. end - 1 : Reusable(d.entries, i)}
      none == end > Len(d.entries)
  IN  CASE none /\ d.broken                        -> [err |-> "EIO", pos |-> <<Root, 0>>]
        [] ~ (none /\ d.broken) /\ free # {}       -> [err |-> "OK", pos |-> d.places[Min(free)]]
        [] none /\ ~ d.broken /\ free = {}         -> [err |-> "ENOSPC", pos |-> <<Root, 0>>]
        [] ~ none /\ free = {} /\ Extendable(d, end)   -> [err |-> "OK", pos |-> d.places[end]]
        [] ~ none /\ free = {} /\ ~ Extendable(d, end) -> [err |-> "EIO", pos |-> <<Root, 0>>]

Return(path, err, pos) ==
  /\ opened' = IF err = "OK" THEN opened \cup {[path |-> path, pos |-> pos]} ELSE opened
  /\ UNCHANGED <<media, fat, root_directory, disabled>>


\* Mutant: total counts one more.
fat16_publish_OneMore(pos, entry) ==
  IF pos[1] # Root THEN UNCHANGED root_directory
  ELSE root_directory' = [item |-> [root_directory.item EXCEPT ![pos[2] + 1] = entry],
                          total |-> Max({root_directory.total, pos[2] + 2})]

fat16_publish(pos, entry) ==
  IF pos[1] # Root THEN UNCHANGED root_directory
  ELSE root_directory' = [item |-> [root_directory.item EXCEPT ![pos[2] + 1] = entry],
                          total |-> Max({root_directory.total, pos[2] + 1})]

\* The entry is written, or the write or the flush fails, before or after it has got there.
fat16_commit_item(path, pos, entry) ==
  \/ /\ media' = [media EXCEPT ![pos] = entry]
     /\ fat16_publish(pos, entry)
     /\ opened' = opened \cup {[path |-> path, pos |-> pos]}
     /\ UNCHANGED <<fat, disabled>>
  \/ /\ media' \in {media, [media EXCEPT ![pos] = entry]}
     /\ disabled' = TRUE
     /\ UNCHANGED <<fat, root_directory, opened>>

fat16_create(path, parts) ==
  LET parent == IF Len(parts) = 1 THEN [Failed("OK") EXCEPT !.type = "directory"]
                ELSE fat16_get_directory_entry(Front(parts))
      slot == FindSlot(fat16_directory_next(parent.directory.first_cluster))
  IN  IF parent.err # "OK" \/ parent.type # "directory"
      THEN Return(path, IF parent.err # "OK" THEN parent.err ELSE "EINVARG", <<Root, 0>>)
      ELSE IF slot.err # "OK" THEN Return(path, slot.err, <<Root, 0>>)
      ELSE fat16_commit_item(path, slot.pos, ShortEntry(Last(parts)))

\* A directory is no file: fat16_open refuses to write it, and file_open, whose fstat fails,
\* to read it.  For names "a" is like "w".
file_open(path, mode) ==
  /\ Cardinality(opened) < MaxOpens
  /\ LET parts == pathparser_parse(path)
         item  == fat16_get_directory_entry(parts)
     IN  IF ~ file_validate_path(path) THEN Return(path, "EINVARG", <<Root, 0>>)
         ELSE IF mode # "r" /\ disabled THEN Return(path, "EIO", <<Root, 0>>)
         ELSE IF item.err = "ENOENT" /\ mode # "r" THEN fat16_create(path, parts)
         ELSE Return(path, IF item.type = "directory" THEN "EINVARG" ELSE item.err, item.pos)

\* The machine starts again and the root is read: fat16_get_root_directory.
Reboot ==
  /\ LET item == [i \in 1 .. RootEntries |-> media[RootPlaces[i]]]
     IN  root_directory' = [item |-> item, total |-> Total(item)]
  /\ disabled' = FALSE
  /\ UNCHANGED <<media, fat, opened>>

DirectoryInit ==
  /\ \E v \in Volumes : media = v.media /\ fat = v.fat
  /\ LET item == [i \in 1 .. RootEntries |-> media[RootPlaces[i]]]
     IN  root_directory = [item |-> item, total |-> Total(item)]
  /\ disabled = FALSE
  /\ opened = {}

DirectoryNext == Reboot \/ \E path \in Paths, mode \in {"r", "w"} : file_open(path, mode)

-------------------------------------------------------------------------------
(* Properties *)

\* The directories there are: the root, and those of the root that can be read.
Below == {fat16_load_fat_directory(media[p].cluster) :
            p \in {q \in ToSet(RootPlaces) : media[q].attribute = "directory"}}
Directories == {RootDirectory} \cup {d \in Below : d.err = "OK"}

\* total counts entries of the root's copy, and no directory in memory has an unused entry
\* before its end (fat16_get_total_items_for_directory, fat16_publish).
DirectoryTypeOK ==
  /\ DOMAIN media = Places /\ DOMAIN root_directory.item = 1 .. RootEntries
  /\ root_directory.total \in 0 .. RootEntries
  /\ \A d \in Directories : \A i \in DOMAIN d.item : ~ IsEnd(d.item[i])



\* The places that follow a piece of a long name, up to the end of the directory.
Followers ==
  UNION {LET read == fat16_directory_next(d.first_cluster)
         IN  {read.places[i + 1] : i \in {j \in 1 .. Total(read.entries) :
                                            j < Len(read.entries) /\ fat16_is_lfn(read.entries[j])}}
         : d \in Directories}

\* A piece of a long name keeps the entry that follows it: no file gets the long name of
\* another one that is gone.
LongNamesStay == [][media' = media \/ \A p \in Followers : media'[p] = media[p]]_directoryVars

\* The names of a volume, and paths made of them.
Words(n) == UNION {[1 .. k -> Plain] : k \in 1 .. n}
IsName(s) == s \in Words(NameSize) \cup {base \o <<".">> \o ext : base \in Words(NameSize), ext \in Words(ExtSize)}
Joined(parts) == FoldLeft(LAMBDA s, part : IF s = <<>> THEN part ELSE s \o <<"/">> \o part, <<>>, parts)

\* A path is accepted just when it is short enough and made of 8.3 names; then its parts are
\* those names, and each is read back from the entry that is made for it.
RoundTrip ==
  \A path \in Paths :
    LET parts == pathparser_parse(path)
        good  == path # <<>> /\ Joined(parts) = path /\ \A i \in DOMAIN parts : IsName(parts[i])
    IN  /\ file_validate_path(path) <=> good /\ Len(path) + 3 < MaxPath
        /\ good => \A i \in DOMAIN parts :
                     istrncmp(fat16_get_full_relative_filename(ShortEntry(parts[i])), parts[i])
================================================================================
