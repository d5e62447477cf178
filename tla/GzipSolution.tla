---------------------------- MODULE GzipSolution ----------------------------
(***************************************************************************)
(* tester/solution.cpp: bag of cells in mode 2, LZ4 over pieces of 1 MiB,  *)
(* gzip over the pieces.  An exception inside compress or decompress makes *)
(* the function answer an empty slice, which main prints as an empty line  *)
(* before it returns 0.                                                    *)
(***************************************************************************)
EXTENDS StdioProcess, FiniteSetsExt

ChunkSize == 1024              \* 1024*1024 bytes
\* Fault: the limit is raised, the chunk size is not.
MaxDecompressed_TwoMiB == 2048
MaxDecompressed == 1024        \* 1 << 20 bytes

InCompress == {"deserialize", "serialize", "chunks", "gzip"}
InDecompress == {"gunzip", "unlz4", "restore", "expand"}

\* Fault: a status of its own for bad usage.
RejectMode_Two ==
  /\ At("mode") /\ child.mode \notin {"compress", "decompress"}
  /\ Exit(2, EmptyText)

RejectMode ==
  /\ At("mode") /\ child.mode \notin {"compress", "decompress"}
  /\ Exit(1, EmptyText)

ReadMode ==
  /\ At("mode") /\ child.mode \in {"compress", "decompress"}
  /\ Step("data", buf)

RejectEmpty ==
  /\ At("data") /\ child.text = EmptyText
  /\ Exit(1, EmptyText)

DecodeInput ==
  /\ At("data") /\ child.text # EmptyText
  /\ Step(IF child.mode = "compress" THEN "deserialize" ELSE "gunzip",
          BufferFromBase64(child.text))

---------------------------------------------------------------------------
(* compress                                                                *)

Deserialize ==
  /\ At("deserialize")
  /\ \E r \in StdBocDeserialize(buf) : MoveAsOk(r, "serialize")

\* Fault: the compact mode without a checksum, as in solution.cpp.
Serialize_NoCrc ==
  /\ At("serialize")
  /\ Step("chunks", StdBocSerialize(buf, 0))

Serialize ==
  /\ At("serialize")
  /\ Step("chunks", StdBocSerialize(buf, 2))

CompressChunk ==
  /\ At("chunks") /\ i < SizeOf(buf)
  /\ frames' = Append(frames, <<i, i + Min({ChunkSize, SizeOf(buf) - i})>>)
  /\ i' = i + ChunkSize
  /\ UNCHANGED <<child, pc, buf>>

EndOfChunks ==
  /\ At("chunks") /\ i >= SizeOf(buf)
  /\ Step("gzip", Lz4(buf, frames))

GzipAll ==
  /\ At("gzip")
  /\ LET final == GzEncode(buf)
     IN  IF final = Empty
         THEN Exit(0, Base64Encode(Empty))           \* throw, catch, return {}
         ELSE Exit(0, Base64Encode(final))

---------------------------------------------------------------------------
(* decompress                                                              *)

Gunzip ==
  /\ At("gunzip")
  /\ Step("unlz4", GzDecode(buf))                    \* not yet looked at

UnLz4 ==
  /\ At("unlz4")
  /\ \E r \in Lz4Decompress(buf, MaxDecompressed) : MoveAsOk(r, "restore")

Restore ==
  /\ At("restore")
  /\ \E r \in StdBocDeserialize(buf) : MoveAsOk(r, "expand")

\* Fault: the block is left in the compact mode.
Expand_Compact ==
  /\ At("expand")
  /\ Exit(0, Base64Encode(StdBocSerialize(buf, 2)))

\* decompressed.empty() is tested here, where it can no longer hold.
Expand ==
  /\ At("expand")
  /\ Exit(0, Base64Encode(StdBocSerialize(buf, 31)))

---------------------------------------------------------------------------
\* std::bad_alloc: caught in compress and decompress, or else in main.
BadAlloc ==
  /\ child.state = "running"
  /\ IF pc \in InCompress \cup InDecompress
     THEN Exit(0, Base64Encode(Empty))
     ELSE Exit(1, EmptyText)

Work ==
  \/ Launch
  \/ RejectMode \/ ReadMode \/ RejectEmpty \/ DecodeInput
  \/ Deserialize \/ Serialize \/ CompressChunk \/ EndOfChunks \/ GzipAll
  \/ Gunzip \/ UnLz4 \/ Restore \/ Expand
=============================================================================
