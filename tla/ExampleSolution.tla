-------------------------- MODULE ExampleSolution ---------------------------
(***************************************************************************)
(* examples/solution.cpp: the reference pipeline inside a main that checks *)
(* its usage itself and catches exceptions.                                *)
(***************************************************************************)
EXTENDS StdioProcess

\* Fault: 1 << 20.
MaxDecompressed_OneMiB == 1024
MaxDecompressed == 2048        \* 2 << 20 bytes

RejectMode ==
  /\ At("mode") /\ child.mode \notin {"compress", "decompress"}
  /\ Exit(1, EmptyText)

ReadMode ==
  /\ At("mode") /\ child.mode \in {"compress", "decompress"}
  /\ Step("data", buf)

RejectEmpty ==
  /\ At("data") /\ child.text = EmptyText
  /\ Exit(1, EmptyText)

DecodeInput ==
  /\ At("data") /\ child.text # EmptyText
  /\ MoveAsOk(Base64Decode(child.text),
              IF child.mode = "compress" THEN "deserialize" ELSE "unlz4")

---------------------------------------------------------------------------
(* compress_block                                                          *)

\* Fault: the bytes are compressed as they are.
Deserialize_Skipped ==
  /\ At("deserialize")
  /\ Step("lz4", buf)

Deserialize ==
  /\ At("deserialize")
  /\ \E r \in StdBocDeserialize(buf) : MoveAsOk(r, "serialize")

Serialize ==
  /\ At("serialize")
  /\ Step("lz4", StdBocSerialize(buf, 2))

Compress ==
  /\ At("lz4")
  /\ Step("print", Lz4(buf, <<<<0, SizeOf(buf)>>>>))

---------------------------------------------------------------------------
(* decompress_block                                                        *)

UnLz4 ==
  /\ At("unlz4")
  /\ \E r \in Lz4Decompress(buf, MaxDecompressed) : MoveAsOk(r, "restore")

Restore ==
  /\ At("restore")
  /\ \E r \in StdBocDeserialize(buf) : MoveAsOk(r, "expand")

Expand ==
  /\ At("expand")
  /\ Step("print", StdBocSerialize(buf, 31))

---------------------------------------------------------------------------
PrintResult ==
  /\ At("print")
  /\ Exit(0, Base64Encode(buf))

\* std::bad_alloc is caught in main, which returns 1.
BadAlloc == child.state = "running" /\ Exit(1, EmptyText)

Work ==
  \/ Launch
  \/ RejectMode \/ ReadMode \/ RejectEmpty \/ DecodeInput
  \/ Deserialize \/ Serialize \/ Compress
  \/ UnLz4 \/ Restore \/ Expand
  \/ PrintResult
=============================================================================
