-------------------------------- MODULE Wire --------------------------------
(***************************************************************************)
(* The packages that a client and the SAC server exchange, as bytes:       *)
(* mtserver/src/serialization.c, the answers that fs_sac.c builds and      *)
(* sac-cli/src/fuse.c takes apart.  A package is sent as its identifier,   *)
(* its size and its data.  Numbers are little-endian and have the width of *)
(* their C type; a width is a number of bytes.                             *)
(***************************************************************************)
EXTENDS Integers, Sequences

CONSTANTS
    SIZE_T,   \* sizeof(size_t): 4 or 8, as the program is built
    UNINIT    \* a byte of memory that nobody has written

Byte == 0 .. 255

ASSUME WireAssumption == SIZE_T \in {4, 8} /\ UNINIT \in Byte

\* serialization.h.  The client is built with an off_t of 64 bits, the
\* server with that of the machine, which is as wide as its size_t.
size_fd == 2
size_mode == 2
size_buffer == 4
size_string_len == 2
size_offset == 4
client_off_t == 8
server_off_t == SIZE_T

t_identifier_message ==
    [SAC |-> 0, open |-> 1, close |-> 2, write |-> 3, read |-> 4, remove |-> 5,
     mkdir |-> 6, rmdir |-> 7, stat |-> 8, readdir |-> 9, rename |-> 10,
     truncate |-> 11]

-----------------------------------------------------------------------------
(***************************************************************************)
(* Memory: numbers, strings and buffers.                                   *)
(***************************************************************************)

\* The w low bytes of v in two's complement, and back.
Bytes(w, v) ==
    LET high[i \in 1 .. w] == IF i = 1 THEN v ELSE high[i - 1] \div 256
    IN  [i \in 1 .. w |-> high[i] % 256]

Unsigned(s) ==
    LET from[i \in 1 .. Len(s) + 1] ==
            IF i > Len(s) THEN 0 ELSE s[i] + 256 * from[i + 1]
    IN  from[1]

Signed(s) ==
    IF s[Len(s)] < 128 THEN Unsigned(s)
    ELSE -1 - Unsigned([i \in 1 .. Len(s) |-> 255 - s[i]])

\* memcpy of n bytes from place i of a buffer; it may run past the end.
Copy(s, i, n) ==
    [j \in 1 .. n |-> IF i + j <= Len(s) THEN s[i + j] ELSE UNINIT]

\* A string without its terminating zero.
CString(s) ==
    LET zeros == {i \in 1 .. Len(s) : s[i] = 0}
    IN  IF zeros = {} THEN s
        ELSE SubSeq(s, 1, (CHOOSE i \in zeros : \A j \in zeros : i <= j) - 1)

_string_serialized_size(string) == size_string_len + Len(string) + 1

_serialize_string(string) ==
    Bytes(size_string_len, Len(string) + 1) \o string \o <<0>>

-----------------------------------------------------------------------------
(***************************************************************************)
(* Packages, and a connection as the bytes that are still to be received.  *)
(***************************************************************************)

\* size bytes are reserved and content is copied to their start.
Package(op, size, content) ==
    [message_id |-> t_identifier_message[op], size |-> size,
     data |-> Copy(content, 0, size)]

create_default_package(id) == [message_id |-> id, size |-> 0, data |-> <<>>]

HEAD_SIZE == 12

\* Mutant: the size is not sent when there is no data.
MutSendNoSize(p) ==
    Bytes(8, p.message_id) \o
    (IF p.size > 0 THEN Bytes(4, p.size) \o p.data ELSE <<>>)

send_package(p) == Bytes(8, p.message_id) \o Bytes(4, p.size) \o p.data

send_handshake == send_package(Package("SAC", 0, <<>>))

\* recv(.., MSG_WAITALL) returns when all bytes asked for have come.
Complete(stream) ==
    /\ Len(stream) >= HEAD_SIZE
    /\ Len(stream) >= HEAD_SIZE + Unsigned(Copy(stream, 8, 4))

receive_package(stream) ==
    LET size == Unsigned(Copy(stream, 8, 4))
    IN  [message_id |-> Signed(Copy(stream, 0, 8)), size |-> size,
         data |-> Copy(stream, HEAD_SIZE, size)]

\* Mutant: a package that has been read is read again (MSG_PEEK).
MutRestPeek(stream) == stream

\* What is left once a package has been received.
Rest(stream) ==
    SubSeq(stream, HEAD_SIZE + receive_package(stream).size + 1, Len(stream))

-----------------------------------------------------------------------------
(***************************************************************************)
(* Requests.                                                               *)
(***************************************************************************)
_serialize_path(op, path) ==
    Package(op, _string_serialized_size(path), _serialize_string(path))

\* serialize_open and serialize_mkdir.
serialize_open(op, path, mode) ==
    Package(op, _string_serialized_size(path) + size_mode,
            _serialize_string(path) \o Bytes(size_mode, mode))

serialize_close(fd) == Package("close", size_fd, Bytes(size_fd, fd))

\* The buffer is placed behind a size_t, of which only size_buffer bytes are
\* written.
serialize_write(fd, buffer, count, offset) ==
    Package("write", size_fd + size_buffer + count + size_offset,
            Bytes(size_fd, fd) \o Copy(Bytes(size_buffer, count), 0, SIZE_T)
            \o Copy(buffer, 0, count) \o Bytes(size_offset, offset))

serialize_read(fd, count, offset) ==
    Package("read", size_fd + size_buffer + size_offset,
            Bytes(size_fd, fd) \o Bytes(size_buffer, count) \o Bytes(size_offset, offset))

serialize_rename(old_path, new_path) ==
    Package("rename", _string_serialized_size(old_path) + _string_serialized_size(new_path),
            _serialize_string(old_path) \o _serialize_string(new_path))

serialize_truncate(path, size) ==
    Package("truncate", _string_serialized_size(path) + client_off_t,
            _serialize_string(path) \o Bytes(client_off_t, size))

\* The choice of send_function: data1 and data2 are its pointers, int1 to
\* int3 its numbers.
Serialize(r) ==
    CASE r.op \in {"open", "mkdir"} -> serialize_open(r.op, r.data1, r.int1)
      [] r.op = "close"    -> serialize_close(r.int1)
      [] r.op = "write"    -> serialize_write(r.int1, r.data1, r.int2, r.int3)
      [] r.op = "read"     -> serialize_read(r.int1, r.int2, r.int3)
      [] r.op = "rename"   -> serialize_rename(r.data1, r.data2)
      [] r.op = "truncate" -> serialize_truncate(r.data1, r.int1)
      [] OTHER             -> _serialize_path(r.op, r.data1)

\* The string at place i of the data, and the place behind it.
StringAt(data, i) ==
    Copy(data, i + size_string_len, Unsigned(Copy(data, i, size_string_len)))
After(data, i) == i + size_string_len + Unsigned(Copy(data, i, size_string_len))

deserialize_open(data) ==
    <<StringAt(data, 0), Signed(Copy(data, After(data, 0), size_mode))>>

\* Mutant: the offset is looked for where the data begins.
MutWriteOffset(data) ==
    LET count == Unsigned(Copy(data, size_fd, size_buffer))
        start == size_fd + size_buffer
    IN  <<Unsigned(Copy(data, 0, size_fd)), Copy(data, start, count), count,
          Unsigned(Copy(data, start, size_offset))>>

deserialize_write(data) ==
    LET count == Unsigned(Copy(data, size_fd, size_buffer))
        start == size_fd + size_buffer
    IN  <<Unsigned(Copy(data, 0, size_fd)), Copy(data, start, count), count,
          Unsigned(Copy(data, start + count, size_offset))>>

deserialize_read(data) ==
    <<Unsigned(Copy(data, 0, size_fd)), Unsigned(Copy(data, size_fd, size_buffer)),
      Unsigned(Copy(data, size_fd + size_buffer, size_offset))>>

deserialize_rename(data) == <<StringAt(data, 0), StringAt(data, After(data, 0))>>

deserialize_truncate(data) ==
    <<StringAt(data, 0), Signed(Copy(data, After(data, 0), server_off_t))>>

\* deserialize: the operation and its arguments, or no operation.  stat is
\* read like open, with a mode from behind the path that nobody uses.
deserialize(p) ==
    IF \A op \in DOMAIN t_identifier_message \ {"SAC"} :
          t_identifier_message[op] # p.message_id
      THEN [op |-> "NULL", args |-> <<>>]
    ELSE LET op == CHOOSE o \in DOMAIN t_identifier_message :
                      t_identifier_message[o] = p.message_id
         IN  [op   |-> op,
              args |-> CASE op \in {"open", "mkdir", "stat"} -> deserialize_open(p.data)
                         [] op = "close"    -> <<Unsigned(Copy(p.data, 0, size_fd))>>
                         [] op = "write"    -> deserialize_write(p.data)
                         [] op = "read"     -> deserialize_read(p.data)
                         [] op = "rename"   -> deserialize_rename(p.data)
                         [] op = "truncate" -> deserialize_truncate(p.data)
                         [] OTHER           -> <<StringAt(p.data, 0)>>]

-----------------------------------------------------------------------------
(***************************************************************************)
(* Answers that carry data.                                                *)
(***************************************************************************)

\* _sac_stat; the two times are left at zero.
StatAnswer(st) ==
    [message_id |-> 0, size |-> 24,
     data |-> Bytes(2, IF st.state = 2 THEN 2 ELSE 1) \o Bytes(2, st.ino)
              \o Bytes(4, st.size) \o Bytes(8, 0) \o Bytes(8, 0)]

\* Mutant: the size is looked for two bytes too early.
MutFillStat(data) ==
    [state |-> IF Signed(Copy(data, 0, 2)) = 2 THEN 2 ELSE 1,
     ino   |-> Unsigned(Copy(data, 2, 2)),
     size  |-> Unsigned(Copy(data, 2, 4))]

__fill_stat_from_buffer(data) ==
    [state |-> IF Signed(Copy(data, 0, 2)) = 2 THEN 2 ELSE 1,
     ino   |-> Unsigned(Copy(data, 2, 2)),
     size  |-> Unsigned(Copy(data, 4, 4))]

\* _sac_readdir: the names one behind the other.
ReaddirAnswer(names) ==
    LET from[i \in Nat] ==
            IF i > Len(names) THEN <<>> ELSE _serialize_string(names[i]) \o from[i + 1]
        data == from[1]
    IN  [message_id |-> 0, size |-> Len(data), data |-> data]

\* The loop of do_readdir that gives each name to the kernel.
EntriesOf(p) ==
    LET entry[i \in Nat] ==
            IF i >= p.size THEN <<>>
            ELSE <<CString(StringAt(p.data, i))>> \o entry[After(p.data, i)]
    IN  entry[0]
=============================================================================
