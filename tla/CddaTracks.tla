----------------------------- MODULE CddaTracks -----------------------------
(***************************************************************************)
(* The CDDA backend (backends/cdda/cdda.c): the audio tracks of a table of *)
(* contents as files, a header that is made up followed by the frames of   *)
(* the track, read through a buffer that is filled ahead; and the virtual  *)
(* text and icon files beside them.                                        *)
(*                                                                         *)
(* A disc d gives its table of contents, d.toc, and the end of the last    *)
(* track, d.leadout; d.aiff says which file format was asked for,          *)
(* d.buffered that memory for the buffer was found, d.virtual the virtual  *)
(* files there are, in their order.  The data of a frame are its sector    *)
(* and the place in it; AIFF has the bytes of a sample the other way       *)
(* round.  A track of 4 GiB, which no disc has, is not modelled.           *)
(***************************************************************************)
EXTENDS NameFix

CONSTANTS
  FrameBytes,    \* bytes of an audio frame (2352)
  HeaderBytes,   \* bytes of a WAV header (44)
  MaxTracks,     \* tracks shown (99)
  ReadAhead      \* frames read into the buffer at once (75)

ASSUME CddaTracksAssumption ==
  /\ FrameBytes \in Nat /\ FrameBytes > 0 /\ FrameBytes % 2 = 0
  /\ HeaderBytes \in Nat \ {0} /\ MaxTracks \in Nat \ {0} /\ ReadAhead \in Nat \ {0}

HeaderSize(d) == IF d.aiff THEN HeaderBytes + 2 ELSE HeaderBytes

\* cdda_mount_from_toc: the length of a track that does not say it ends where
\* the next one begins, or the disc.
TrackLength(d, i) ==
  LET t == d.toc[i]
      next == IF t.length = 0 /\ i < Len(d.toc) THEN d.toc[i + 1].start - t.start ELSE t.length
  IN  IF next = 0 /\ d.leadout > t.start THEN d.leadout - t.start ELSE next
Tracks(d) ==
  LET Track(i) == [number |-> d.toc[i].number, start |-> d.toc[i].start, length |-> TrackLength(d, i)]
      Shown(audio) == [k \in 1..Least(MaxTracks, Len(audio)) |-> Track(audio[k])]
  IN  Shown(SelectSeq([i \in DOMAIN d.toc |-> i],
                      LAMBDA i : ~d.toc[i].data /\ TrackLength(d, i) # 0))
DataSize(t) == t.length * FrameBytes

CddaRoot(d) == [id |-> d.root, key |-> 1, size |-> 0, name |-> <<"/">>, kind |-> "dir"]

\* cdda_fill_virtual_node, cdda_fill_track_node: a track is found again by its
\* place in the table, which is its key.
VirtualNode(d, i) ==
  [id |-> d.virtual[i].id, name |-> d.virtual[i].name, kind |-> "file", key |-> -i,
   size |-> Len(d.virtual[i].bytes)]
TrackNode(d, t, i) ==
  [id |-> t.number, name |-> <<"Track", t.number>>, kind |-> "file",
   key |-> i + 1, size |-> DataSize(t) + HeaderSize(d)]
CddaEntries(d) ==
  LET Nodes(tracks) == [i \in DOMAIN tracks |-> TrackNode(d, tracks[i], i)]
  IN  [i \in DOMAIN d.virtual |-> VirtualNode(d, i)] \o Nodes(Tracks(d))

\* cdda_readdir: what it leaves in the cookie is the place of the last entry
\* taken, not of the one behind it.
CddaReaddir(d, cookie, n) ==
  LET Resume(all) ==
        IF Len(all) - cookie >= n
        THEN [out |-> SubSeq(all, cookie + 1, cookie + n), cookie |-> cookie + n - 1, err |-> "stop"]
        ELSE [out |-> SubSeq(all, cookie + 1, Len(all)), cookie |-> Len(all), err |-> "ok"]
  IN  Resume(CddaEntries(d))

\* cdda_lookup
CddaLookup(d, name) == FirstNamed([items |-> CddaEntries(d), err |-> "ok"], name)

----------------------------------------------------------------------------
\* The audio buffer: `count` frames from `lba` on; what it holds, `bytes`, is of
\* no account when there are none.
NoAudio == [lba |-> 0, count |-> 0, bytes |-> <<>>]

Sample(d, lba, i) == <<lba, IF d.aiff THEN i + 1 - 2 * (i % 2) ELSE i>>
FrameData(d, lba, count) ==
  [i \in 1..(count * FrameBytes) |->
     Sample(d, lba + (i - 1) \div FrameBytes, (i - 1) % FrameBytes)]

\* cdda_audio_cache_contains, cdda_fill_audio_cache: the buffer never reaches
\* over the end of the track; a read that fails leaves it empty, with whatever
\* the device wrote.
AudioContains(audio, lba) == lba >= audio.lba /\ lba < audio.lba + audio.count
Written(audio) == [i \in DOMAIN audio.bytes |-> <<0, 0>>]
Fill(d, t, audio, frame, bad) ==
  LET count == Least(t.length - frame, ReadAhead)
      lba == t.start + frame
  IN  IF bad \in lba..(lba + count - 1)
        THEN [err |-> "io", audio |-> [audio EXCEPT !.count = 0, !.bytes = Written(audio)]]
      ELSE [err |-> "ok",
            audio |-> [lba |-> lba, count |-> count, bytes |-> FrameData(d, lba, count)]]

\* cdda_build_header: made up from the size of the data.
Header(d, t) == [i \in 1..HeaderSize(d) |-> <<-DataSize(t), i>>]

\* The frames of a read, from byte `pos` of the data to `end`.
RECURSIVE AudioData(_, _, _, _, _, _)
AudioData(d, t, audio, pos, end, bad) ==
  LET frame == pos \div FrameBytes
      lba == t.start + frame
      Copy(held, kept) ==
        LET at == pos - (held.lba - t.start) * FrameBytes
            chunk == Least(held.count * FrameBytes - at, end - pos)
        IN  [AudioData(d, t, kept, pos + chunk, end, bad) EXCEPT
               !.bytes = SubSeq(held.bytes, at + 1, at + chunk) \o @]
      From(filled) ==
        IF filled.err # "ok" THEN [err |-> filled.err, bytes |-> <<>>, audio |-> filled.audio]
        ELSE Copy(filled.audio, filled.audio)
  IN  IF pos >= end THEN [err |-> "ok", bytes |-> <<>>, audio |-> audio]
      ELSE IF ~d.buffered
      THEN IF lba = bad THEN [err |-> "io", bytes |-> <<>>, audio |-> audio]
           ELSE Copy([lba |-> lba, count |-> 1, bytes |-> FrameData(d, lba, 1)], audio)
      ELSE From(IF AudioContains(audio, lba) THEN [err |-> "ok", audio |-> audio]
                ELSE Fill(d, t, audio, frame, bad))

\* cdda_read.  An error is returned without any data.
TrackRead(d, t, off, end, audio, bad) ==
  LET head == SubSeq(Header(d, t), off + 1, Least(end, HeaderSize(d)))
      Behind(body) == [body EXCEPT !.bytes = IF body.err = "ok" THEN head \o @ ELSE <<>>]
  IN  IF Len(head) >= end - off THEN [err |-> "ok", audio |-> audio, bytes |-> head]
      ELSE Behind(AudioData(d, t, audio, off + Len(head) - HeaderSize(d), end - HeaderSize(d), bad))
CddaRead(d, file, off, n, audio, bad) ==
  LET end == Least(off + n, file.size)
  IN  IF off >= file.size THEN [err |-> "ok", audio |-> audio, bytes |-> <<>>]
      ELSE IF file.key < 0
      THEN [err |-> "ok", audio |-> audio, bytes |-> SubSeq(d.virtual[-file.key].bytes, off + 1, end)]
      ELSE TrackRead(d, Tracks(d)[file.key - 1], off, end, audio, bad)
=============================================================================
