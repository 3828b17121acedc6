----------------------------- MODULE AdbSideload -----------------------------
(***************************************************************************)
(* `adb sideload' (commandline.c): the device asks for the blocks of a     *)
(* file, or, when it does not know that service, gets the file in one go.  *)
(***************************************************************************)
EXTENDS Integers

CONSTANTS
  BlockSize,  \* CHUNK_SIZE
  IntMax,     \* the largest int; an unsigned takes twice as much and one
  MaxBlocks,  \* the largest number of eight digits
  MaxAsked    \* bound on the blocks it asks for

ASSUME SideloadAssumption ==
  BlockSize \in Nat \ {0} /\ IntMax \in Nat \ {0} /\ MaxBlocks \in Nat /\ MaxAsked \in Nat

Whole == 2 * IntMax + 2  \* what a 32 bit number wraps at
NoBlock == -1

VARIABLES
  size,     \* sz
  wide,     \* size_t has 64 bits
  exact,    \* the build multiplies in 64 bits: a product no int holds is undefined in C
  host,     \* connect, command, serve, fallback, sending, response, or done
  block,    \* the block asked for, a number or DONE; NoBlock when none is
  asked,
  \* what the device got: the block and the bytes of the last answer, or of the whole file
  lastBlock, gotten,
  hungUp,
  result, reason

sideloadVars ==
  <<size, wide, exact, host, block, asked, lastBlock, gotten, hungUp, result, reason>>
Unread == [block |-> NoBlock, from |-> 0, upTo |-> 0]

SideloadInit ==
  /\ size \in 0 .. Whole - 1 /\ wide \in BOOLEAN /\ exact \in BOOLEAN /\ (exact => wide)
  \* What a size_t of 32 bits takes in leaves room for a block.
  /\ wide \/ size <= Whole - BlockSize
  /\ host = "connect" /\ block = NoBlock /\ asked = 0 /\ lastBlock = Unread /\ gotten = 0
  /\ hungUp = FALSE /\ result = 0 /\ reason = "none"

\* An unsigned or the product of two ints as an int.
AsInt(n) == IF n % Whole > IntMax THEN (n % Whole) - Whole ELSE n % Whole

SideloadEndsWith(code, cause) == host' = "done" /\ result' = code /\ reason' = cause

\* adb_sideload_host: any failure to connect makes it try the older service.
Connects ==
  /\ host = "connect"
  /\ host' \in {"command", "fallback"}
  /\ UNCHANGED <<size, wide, exact, block, asked, lastBlock, gotten, hungUp, result, reason>>

\* The device asks for a block, says it is done, or hangs up.
Asks ==
  /\ host = "command" /\ block = NoBlock /\ ~ hungUp
  /\ \/ /\ asked < MaxAsked /\ asked' = asked + 1
        /\ block' \in 0 .. MaxBlocks /\ UNCHANGED hungUp
     \/ hungUp' = TRUE /\ UNCHANGED <<asked, block>>
     \/ block' = MaxBlocks + 1 /\ UNCHANGED <<asked, hungUp>>
  /\ UNCHANGED <<size, wide, exact, host, lastBlock, gotten, result, reason>>

\* The last block may be partial.
ServedBlock(offset) ==
  [block |-> block, from |-> offset,
   upTo |-> IF offset + BlockSize > size THEN size ELSE offset + BlockSize]
PastEnd(offset) == offset >= size

\* block * SIDELOAD_HOST_BLOCK_SIZE, of two ints.  Cut to an int it loses what is past 32
\* bits; as a size_t of 64 bits a negative one is past any end, as one of 32 bits it is what
\* it was before it wrapped.
CutOffset == LET product == AsInt(block * BlockSize)
             IN IF product < 0 THEN product + (IF wide THEN Whole * Whole ELSE Whole)
                ELSE product
Offset == IF exact THEN block * BlockSize ELSE CutOffset

\* Mutant: it reads again when the device has hung up.
ReadsAgain ==
  /\ host = "command" /\ block # NoBlock
  /\ IF block = MaxBlocks + 1
     THEN SideloadEndsWith(0, "done") /\ UNCHANGED <<block, lastBlock>>
     ELSE IF PastEnd(Offset)
     THEN SideloadEndsWith(-1, "past") /\ UNCHANGED <<block, lastBlock>>
     ELSE /\ lastBlock' = ServedBlock(Offset) /\ block' = NoBlock
          /\ UNCHANGED <<host, result, reason>>
  /\ UNCHANGED <<size, wide, exact, asked, gotten, hungUp>>

ServesBlock ==
  /\ host = "command"
  /\ CASE block = MaxBlocks + 1 -> SideloadEndsWith(0, "done") /\ UNCHANGED <<block, lastBlock>>
       [] hungUp /\ block = NoBlock ->
            SideloadEndsWith(-1, "hungUp") /\ UNCHANGED <<block, lastBlock>>
       [] block \in 0 .. MaxBlocks /\ PastEnd(Offset) ->
            SideloadEndsWith(-1, "past") /\ UNCHANGED <<block, lastBlock>>
       [] block \in 0 .. MaxBlocks /\ ~ PastEnd(Offset) ->
            \/ /\ lastBlock' = ServedBlock(Offset) /\ block' = NoBlock
               /\ UNCHANGED <<host, result, reason>>
            \/ SideloadEndsWith(-1, "hungUp") /\ UNCHANGED <<block, lastBlock>>
       [] OTHER -> FALSE
  /\ UNCHANGED <<size, wide, exact, asked, gotten, hungUp>>

\* adb_download_buffer: sz is an int; the device is told it, then gets the file in chunks.
Downloads ==
  /\ host = "fallback"
  /\ \/ host' = "sending" /\ UNCHANGED <<result, reason>>
     \/ SideloadEndsWith(-1, "connect")
  /\ UNCHANGED <<size, wide, exact, block, asked, lastBlock, gotten, hungUp>>

SendsChunk ==
  /\ host = "sending"
  /\ IF AsInt(size) - gotten > 0
     THEN \/ /\ gotten' = IF AsInt(size) - gotten > BlockSize THEN gotten + BlockSize
                               ELSE AsInt(size)
             /\ UNCHANGED <<host, result, reason>>
          \/ SideloadEndsWith(-1, "hungUp") /\ UNCHANGED gotten
     ELSE host' = "response" /\ UNCHANGED <<gotten, result, reason>>
  /\ UNCHANGED <<size, wide, exact, block, asked, lastBlock, hungUp>>

\* The device answers as it likes.
Responds ==
  /\ host = "response"
  /\ \/ SideloadEndsWith(0, "okay") \/ SideloadEndsWith(-1, "response")
  /\ UNCHANGED <<size, wide, exact, block, asked, lastBlock, gotten, hungUp>>

DeviceAsks == Asks
HostServes == Connects \/ ServesBlock \/ Downloads \/ SendsChunk \/ Responds
SideloadNext == DeviceAsks \/ HostServes

-----------------------------------------------------------------------------
\* Types; result is 0 while it runs, and at the end if the device said so.
SideloadTypeOK ==
  /\ host \in {"connect", "command", "fallback", "sending", "response", "done"}
  /\ block \in NoBlock .. MaxBlocks + 1 /\ asked \in 0 .. MaxAsked /\ gotten \in 0 .. size
  /\ hungUp \in BOOLEAN /\ result \in {-1, 0}
  /\ host = "done" /\ result = 0 => reason \in {"done", "okay"}

\* Each answer is the block asked for, all of it that there is and no more
\* ("Blocks are numbered from zero.  The last block is likely to be partial", commandline.c:545).
\* Where the product is cut to an int, a number whose offset no 32 bits hold is taken for the
\* block its offset wraps to; that one is in the file too.
BlocksRight ==
  lastBlock # Unread =>
    /\ \/ lastBlock.from = lastBlock.block * BlockSize
       \/ ~ exact /\ lastBlock.block * BlockSize >= Whole
    /\ lastBlock.from < size /\ lastBlock.upTo <= size
    /\ lastBlock.upTo = lastBlock.from + BlockSize \/ lastBlock.upTo = size

\* A block that is there is refused only when its offset is no int, the product is cut to one
\* and size_t is wide (adb_sideload_host).
PastOnlyIfPast ==
  reason = "past" =>
    \/ block * BlockSize >= size
    \/ wide /\ ~ exact /\ block * BlockSize > IntMax

\* The older service is given the whole file, if its size is an int (adb_download_buffer).
DownloadedWhole == reason = "okay" /\ size <= IntMax => gotten = size

\* Either way ends once adb_connect has returned: the device is done with the blocks, hangs up
\* or answers (adb_sideload_host, adb_download_buffer).
SideloadEnds == host \notin {"connect", "done"} ~> host = "done"

\* Sideloading (commandline.c): each block served is the block asked for unless its offset
\* wrapped, the older way sends the file whole, and both end.
SideloadCorrect ==
  /\ []SideloadTypeOK /\ []BlocksRight /\ []PastOnlyIfPast /\ []DownloadedWhole
  /\ SideloadEnds
=============================================================================
