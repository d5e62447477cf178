------------------------- MODULE ReferenceSolution --------------------------
(***************************************************************************)
(* ton-compress-contest-linux/solution.cpp: bag of cells in mode 2 and one *)
(* LZ4 block.  It catches nothing: every failed CHECK, every error Result  *)
(* and std::bad_alloc end it with SIGABRT.                                 *)
(***************************************************************************)
EXTENDS StdioProcess

MaxDecompressed == 2048        \* 2 << 20 bytes

CheckMode ==
  /\ At("mode")
  /\ IF child.mode \in {"compress", "decompress"} THEN Step("data", buf) ELSE Abort

CheckData ==
  /\ At("data")
  /\ IF child.text # EmptyText THEN Step("decode", buf) ELSE Abort

DecodeInput ==
  /\ At("decode")
  /\ MoveAsOk(Base64Decode(child.text),
              IF child.mode = "compress" THEN "deserialize" ELSE "unlz4")

---------------------------------------------------------------------------
(* compress                                                                *)

Deserialize ==
  /\ At("deserialize")
  /\ \E r \in StdBocDeserialize(buf) : MoveAsOk(r, "serialize")

Serialize ==
  /\ At("serialize")
  /\ Step("lz4", StdBocSerialize(buf, 2))

Compress ==
  /\ At("lz4")
  /\ Step("print", Lz4(buf, <<<<0, SizeOf(buf)>>>>))

---------------------------------------------------------------------------
(* decompress                                                              *)

UnLz4 ==
  /\ At("unlz4")
  /\ \E r \in Lz4Decompress(buf, MaxDecompressed) : MoveAsOk(r, "restore")

Restore ==
  /\ At("restore")
  /\ \E r \in StdBocDeserialize(buf) : MoveAsOk(r, "expand")

Expand ==
  /\ At("expand")
  /\ Step("print", StdBocSerialize(buf, 31))

---------------------------------------------------------------------------
PrintResult ==
  /\ At("print")
  /\ Exit(0, Base64Encode(buf))

BadAlloc == child.state = "running" /\ Abort

Work ==
  \/ Launch
  \/ CheckMode \/ CheckData \/ DecodeInput
  \/ Deserialize \/ Serialize \/ Compress
  \/ UnLz4 \/ Restore \/ Expand
  \/ PrintResult
=============================================================================
