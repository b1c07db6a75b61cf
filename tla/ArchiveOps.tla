----------------------------- MODULE ArchiveOps -----------------------------
(***************************************************************************)
(* runtime/package/Archive and CanonicalArchivePath: what is accepted as a *)
(* package.  An image is what the reader makes of the bytes: its size,     *)
(* whether the end record is well formed, the entries of the central       *)
(* directory in order, whether they account for every byte before it, and  *)
(* whether the bytes are the deterministic encoding of those entries.  A   *)
(* path is a sequence of components, each with its folded name and the     *)
(* form it is spelled in.                                                  *)
(***************************************************************************)
EXTENDS Integers, Sequences, SequencesExt

CONSTANTS MaximumArchiveBytes, MaximumEntries, MaximumEntryBytes,
          MaximumTotalBytes, MaximumCompressionRatio,
          QWordMax             \* the largest quint64

ASSUME LimitsAssumption ==
    /\ {MaximumArchiveBytes, MaximumEntries, MaximumEntryBytes,
        MaximumTotalBytes, MaximumCompressionRatio} \subseteq 0..QWordMax
    /\ QWordMax \in Nat

-----------------------------------------------------------------------------
\* Paths.

\* A component is "reserved" when it is empty, too long, ".", "..", a device
\* name, ends in a dot or a blank or has a character Windows reserves.
validateArchivePath(path) ==
    path # <<>> /\ \A i \in DOMAIN path : path[i].form # "reserved"

collisionKey(path) == [i \in DOMAIN path |-> path[i].fold]

\* Spelled in normal form C; case does not matter.
isCanonical(path) == \A i \in DOMAIN path : path[i].form # "decomposed"

\* Two entries fold to the same name, or one is the directory of another.
findArchivePathCollision(entries) ==
    \E i, j \in DOMAIN entries :
        i # j /\ IsPrefix(collisionKey(entries[i].path),
                          collisionKey(entries[j].path))

firstNonCanonicalArchivePath(entries) ==
    \E i \in DOMAIN entries : ~isCanonical(entries[i].path)

-----------------------------------------------------------------------------
\* Entries.

BugTotalWraps(size, total) ==
    (total + size) % (QWordMax + 1) > MaximumTotalBytes
exceedsTotal(size, total) ==
    total > MaximumTotalBytes \/ size > MaximumTotalBytes - total

\* The product is computed only where it cannot wrap.
ratioExceeded(e) ==
    e.size > 0
    /\ \/ e.packed = 0
       \/ /\ MaximumCompressionRatio > 0
          /\ e.packed <= QWordMax \div MaximumCompressionRatio
          /\ e.size > e.packed * MaximumCompressionRatio

totalBefore(entries) ==
    LET total[i \in 1..Len(entries) + 1] ==
            IF i = 1 THEN 0 ELSE total[i - 1] + entries[i - 1].size
    IN  total

\* The central and the local header of the entry say the same, and nothing
\* but what the format needs.
centralAndLocalMetadataMatch(e) == e.matched

\* The entry unpacks to exactly the size its header gives, from exactly the
\* bytes it has.
readEntryStream(e) == e.intact

\* The checks of one entry, in the order of the loop.
entryError(e, total) ==
    CASE ~centralAndLocalMetadataMatch(e)  -> "InvalidArchive"
      [] ~validateArchivePath(e.path)      -> "InvalidEntryPath"
      [] e.kind # "file"                   -> "UnsupportedEntry"
      [] e.size > MaximumEntryBytes        -> "EntrySizeLimit"
      [] e.size = 0 /\ ~e.stored           -> "UnsupportedEntry"
      [] e.stored /\ e.packed # e.size     -> "InvalidArchive"
      [] exceedsTotal(e.size, total)       -> "TotalSizeLimit"
      [] MaximumCompressionRatio = 0 \/ ratioExceeded(e)
                                           -> "CompressionRatioLimit"
      [] OTHER                             -> "None"

-----------------------------------------------------------------------------
\* The archive.

readAtMost(image) == image.size <= MaximumArchiveBytes

preflightZipEnvelope(image) ==
    CASE ~image.envelope                     -> "InvalidArchive"
      [] Len(image.entries) > MaximumEntries -> "EntryCountLimit"
      [] OTHER                               -> "None"

\* The entries lie side by side from the first byte to the central directory.
localRangesAreTight(image) == image.covered

inspectBytes(image) ==
    LET entries == image.entries
        total == totalBefore(entries)
        rejected == {i \in DOMAIN entries :
                       entryError(entries[i], total[i]) # "None"}
        first == CHOOSE i \in rejected : \A j \in rejected : i <= j
    IN  CASE preflightZipEnvelope(image) # "None" -> preflightZipEnvelope(image)
          [] rejected # {} -> entryError(entries[first], total[first])
          [] findArchivePathCollision(entries)     -> "DuplicateEntryPath"
          [] firstNonCanonicalArchivePath(entries) -> "InvalidEntryPath"
          [] ~localRangesAreTight(image)           -> "InvalidArchive"
          [] \E i \in DOMAIN entries : ~readEntryStream(entries[i])
                                                   -> "InvalidArchive"
          [] OTHER                                 -> "None"

\* What createFromBuffers insists on before it encodes the entries again.
createFromBuffers(entries) ==
    LET total == totalBefore(entries)
    IN  /\ Len(entries) <= MaximumEntries
        /\ \A i \in DOMAIN entries :
             /\ validateArchivePath(entries[i].path)
             /\ entries[i].size <= MaximumEntryBytes
             /\ ~exceedsTotal(entries[i].size, total[i])
        /\ ~findArchivePathCollision(entries)
        /\ ~firstNonCanonicalArchivePath(entries)

\* The archive is read once; its entries are encoded again and the result
\* must be the bytes that were read.
snapshot(image) ==
    CASE ~readAtMost(image)                  -> "ArchiveSizeLimit"
      [] inspectBytes(image) # "None"        -> inspectBytes(image)
      [] ~createFromBuffers(image.entries)   -> "DestinationUnavailable"
      [] ~image.deterministic                -> "NonCanonicalArchive"
      [] OTHER                               -> "None"

\* extractFiles repeats the checks of the members before it writes the first.
extractFiles(image) == createFromBuffers(image.entries)
=============================================================================
