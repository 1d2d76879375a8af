--------------------------- MODULE SacCallsProofs ---------------------------
(***************************************************************************)
(* Theorems about the calls of client programs: what arrives at the server *)
(* is what the handler asked for, what the handler returns is what the     *)
(* disk held, handles stay with their files, and only a request that was   *)
(* cut off makes the server follow what nobody wrote.                      *)
(*                                                                         *)
(* First the package of every request comes back as it was; then the       *)
(* inductive invariant; then its two halves, step by step: what is in the  *)
(* connections, and what the kernel knows of the disk.  Last, on top of    *)
(* it, the answers: what each tells, and that it stays right on its way.   *)
(***************************************************************************)
EXTENDS SacCalls, WireLemmas, SacTreeProofs

-----------------------------------------------------------------------------
(***************************************************************************)
(* Requests: what the server makes of a package (serialization.c).         *)
(***************************************************************************)
\* A request whose numbers and strings fit their fields.
Askable(r) ==
    \/ r.op \in {"open", "mkdir"} /\ Sendable(r.data1) /\ LowShort(r.int1)
    \/ r.op \in {"stat", "readdir", "remove", "rmdir"} /\ Sendable(r.data1)
    \/ r.op = "rename" /\ Sendable(r.data1) /\ Sendable(r.data2)
    \/ r.op = "truncate" /\ Sendable(r.data1) /\ LowWord(r.int1)
    \/ r.op = "close" /\ Short(r.int1)
    \/ r.op = "read" /\ Short(r.int1) /\ Word(r.int2) /\ Word(r.int3)
    \/ /\ r.op = "write" /\ Short(r.int1) /\ LowWord(r.int2) /\ Word(r.int3)
       /\ r.data1 \in Seq(Byte) /\ Len(r.data1) = r.int2

\* The server takes from a package what the client has put into it.
Understood(r) ==
    /\ Sound(Serialize(r))
    /\ deserialize(Serialize(r)).op = r.op
    /\ \A i \in DOMAIN Meant(r) : deserialize(Serialize(r)).args[i] = Meant(r)[i]

\* The package of r has the data d, and the arguments taken from d are meant.
Carries(r, d) ==
    /\ r.op \in Operation
    /\ Sound(Serialize(r))
    /\ Serialize(r).message_id = t_identifier_message[r.op]
    /\ Serialize(r).data = d

\* A package whose data show the arguments meant is understood.
LEMMA CarriedUnderstood ==
    ASSUME NEW r, NEW d, Carries(r, d),
           \A i \in DOMAIN Meant(r) : Arguments(r.op, d)[i] = Meant(r)[i]
    PROVE  Understood(r)
<1>1. deserialize(Serialize(r)) = [op |-> r.op, args |-> Arguments(r.op, Serialize(r).data)]
  BY FunctionIs DEF Carries
<1> QED
  BY <1>1 DEF Carries, Understood

\* stat, readdir, remove and rmdir.
LEMMA PathUnderstood ==
    ASSUME NEW r, r.op \in {"stat", "readdir", "remove", "rmdir"}, Sendable(r.data1)
    PROVE  Understood(r)
<1> DEFINE d == _serialize_string(r.data1)
           n == _string_serialized_size(r.data1)
<1>1. r.op \in Operation
  BY DEF Operation, t_identifier_message
<1>2. d \in Seq(Byte) /\ n = Len(d) /\ n \in Nat /\ n < 256 * 128 /\ ShortString(r.data1)
  BY PathIs
<1>3. Word(n)
  BY <1>2, Small
<1>4. Serialize(r) = Package(r.op, n, d)
  BY DEF Serialize, _serialize_path
<1>5. Carries(r, d)
  <2> HIDE DEF d, n
  <2> QED
    BY <1>1, <1>2, <1>3, <1>4, PackageIs DEF Carries
<1>6. StringAt(d, 0) = r.data1 \o <<0>>
  BY <1>2, AtStart, StringFound
<1> HIDE DEF d, n
<1>7. Meant(r) = <<r.data1 \o <<0>>>>
  BY DEF Meant
<1>8. Arguments(r.op, d)[1] = StringAt(d, 0)
  BY DEF Arguments, deserialize_open
<1>9. \A i \in DOMAIN Meant(r) : Arguments(r.op, d)[i] = Meant(r)[i]
  <2>1. DOMAIN Meant(r) = {1} /\ Meant(r)[1] = r.data1 \o <<0>>
    BY <1>7
  <2> QED
    BY <1>6, <1>8, <2>1, Zenon
<1> QED
  BY <1>5, <1>9, CarriedUnderstood

\* open and mkdir: a path and a short.
LEMMA OpenUnderstood ==
    ASSUME NEW r, r.op \in {"open", "mkdir"}, Sendable(r.data1), LowShort(r.int1)
    PROVE  Understood(r)
<1> DEFINE a == _serialize_string(r.data1)
           b == Bytes(2, r.int1)
           m == _string_serialized_size(r.data1)
           d == a \o b
<1>1. r.op \in Operation
  BY DEF Operation, t_identifier_message
<1>2. a \in Seq(Byte) /\ m = Len(a) /\ m \in Nat /\ m < 256 * 128 /\ ShortString(r.data1)
  BY PathIs
<1>3. b \in Seq(Byte) /\ Len(b) = 2
  BY Limits, ShortIs
<1>4. Serialize(r) = Package(r.op, m + 2, d)
  BY DEF Serialize, serialize_open, size_mode
<1> HIDE DEF a, b, m
<1>5. d \in Seq(Byte) /\ Len(d) = m + 2 /\ Word(m + 2)
  <2>1. d \in Seq(Byte) /\ Len(d) = Len(a) + Len(b)
    BY <1>2, <1>3, Joined
  <2>2. m + 2 \in Nat /\ m + 2 < 256 * 256 * 256
    BY <1>2
  <2> QED
    BY <1>2, <1>3, <2>1, <2>2, Small
<1>6. Carries(r, d)
  <2> HIDE DEF d
  <2> QED
    BY <1>1, <1>4, <1>5, PackageIs DEF Carries
<1>7. At(d, 0, a) /\ At(d, m, b)
  BY <1>2, <1>3, AtStart, AtLeft, AtRight
<1> HIDE DEF d
<1>8. StringAt(d, 0) = r.data1 \o <<0>> /\ After(d, 0) = m
  <2>1. After(d, 0) = 0 + m /\ StringAt(d, 0) = r.data1 \o <<0>>
    BY <1>2, <1>7, StringFound DEF a, m
  <2> QED
    BY <1>2, <2>1
<1>9. Signed(Copy(d, m, 2)) = r.int1
  BY <1>2, <1>7, Limits, ShortAt DEF b
<1>10. Arguments(r.op, d) = <<r.data1 \o <<0>>, r.int1>>
  BY <1>8, <1>9 DEF Arguments, deserialize_open, size_mode
<1>11. Meant(r) = <<r.data1 \o <<0>>, r.int1>>
  BY DEF Meant
<1> QED
  BY <1>6, <1>10, <1>11, CarriedUnderstood

\* truncate: the client writes eight bytes for the offset, the server reads
\* the first four of them.
LEMMA TruncateUnderstood ==
    ASSUME SIZE_T = 4, NEW r, r.op = "truncate", Sendable(r.data1), LowWord(r.int1)
    PROVE  Understood(r)
<1> DEFINE a == _serialize_string(r.data1)
           b == Bytes(8, r.int1)
           m == _string_serialized_size(r.data1)
           d == a \o b
<1>1. r.op \in Operation
  BY DEF Operation, t_identifier_message
<1>2. a \in Seq(Byte) /\ m = Len(a) /\ m \in Nat /\ m < 256 * 128 /\ ShortString(r.data1)
  BY PathIs
<1>3. /\ b \in Seq(Byte) /\ Len(b) = 8
      /\ \A i \in 1 .. 4 : b[i] = Bytes(4, r.int1)[i]
  <2>1. r.int1 \in Int
    BY DEF LowWord
  <2>2. b \in Row(8) /\ \A i \in 1 .. 4 : b[i] = Bytes(4, r.int1)[i]
    BY <2>1, LowBytes
  <2> QED
    BY <2>2, RowIsSeq
<1>4. Serialize(r) = Package(r.op, m + 8, d)
  BY DEF Serialize, serialize_truncate, client_off_t
<1> HIDE DEF a, b, m
<1>5. d \in Seq(Byte) /\ Len(d) = m + 8 /\ Word(m + 8)
  <2>1. d \in Seq(Byte) /\ Len(d) = Len(a) + Len(b)
    BY <1>2, <1>3, Joined
  <2>2. m + 8 \in Nat /\ m + 8 < 256 * 256 * 256
    BY <1>2
  <2> QED
    BY <1>2, <1>3, <2>1, <2>2, Small
<1>6. Carries(r, d)
  <2> HIDE DEF d
  <2> QED
    BY <1>1, <1>4, <1>5, PackageIs DEF Carries
<1>7. At(d, 0, a) /\ At(d, m, b)
  BY <1>2, <1>3, AtStart, AtLeft, AtRight
<1> HIDE DEF d
<1>8. StringAt(d, 0) = r.data1 \o <<0>> /\ After(d, 0) = m
  <2>1. After(d, 0) = 0 + m /\ StringAt(d, 0) = r.data1 \o <<0>>
    BY <1>2, <1>7, StringFound DEF a, m
  <2> QED
    BY <1>2, <2>1
<1>9. Signed(Copy(d, m, 4)) = r.int1
  <2> DEFINE c == Bytes(4, r.int1)
  <2>1. Word(r.int1)
    BY Limits
  <2>2. Len(c) = 4
    BY <2>1, WordIs
  <2>3. At(d, m, c)
    <3> HIDE DEF c
    <3> SUFFICES ASSUME NEW j \in 1 .. Len(c) PROVE m + j <= Len(d) /\ d[m + j] = c[j]
      BY DEF At
    <3>1. j \in 1 .. Len(b) /\ j \in 1 .. 4
      BY <1>3, <2>2
    <3> QED
      BY <1>3, <1>7, <3>1 DEF At, c
  <2> QED
    BY <1>2, <2>1, <2>3, WordAt
<1>10. Arguments(r.op, d) = <<r.data1 \o <<0>>, r.int1>>
  BY <1>8, <1>9 DEF Arguments, deserialize_truncate, server_off_t
<1>11. Meant(r) = <<r.data1 \o <<0>>, r.int1>>
  BY DEF Meant
<1> QED
  BY <1>6, <1>10, <1>11, CarriedUnderstood

\* rename: two paths.
LEMMA RenameUnderstood ==
    ASSUME NEW r, r.op = "rename", Sendable(r.data1), Sendable(r.data2)
    PROVE  Understood(r)
<1> DEFINE a == _serialize_string(r.data1)
           b == _serialize_string(r.data2)
           m == _string_serialized_size(r.data1)
           n == _string_serialized_size(r.data2)
           d == a \o b
<1>1. r.op \in Operation
  BY DEF Operation, t_identifier_message
<1>2. a \in Seq(Byte) /\ m = Len(a) /\ m \in Nat /\ m < 256 * 128 /\ ShortString(r.data1)
  BY PathIs
<1>3. b \in Seq(Byte) /\ n = Len(b) /\ n \in Nat /\ n < 256 * 128 /\ ShortString(r.data2)
  BY PathIs
<1>4. Serialize(r) = Package(r.op, m + n, d)
  BY DEF Serialize, serialize_rename
<1> HIDE DEF a, b, m, n
<1>5. d \in Seq(Byte) /\ Len(d) = m + n /\ Word(m + n)
  <2>1. d \in Seq(Byte) /\ Len(d) = Len(a) + Len(b)
    BY <1>2, <1>3, Joined
  <2>2. m + n \in Nat /\ m + n < 256 * 256 * 256
    BY <1>2, <1>3
  <2> QED
    BY <1>2, <1>3, <2>1, <2>2, Small
<1>6. Carries(r, d)
  <2> HIDE DEF d
  <2> QED
    BY <1>1, <1>4, <1>5, PackageIs DEF Carries
<1>7. At(d, 0, a) /\ At(d, m, b)
  BY <1>2, <1>3, AtStart, AtLeft, AtRight
<1> HIDE DEF d
<1>8. StringAt(d, 0) = r.data1 \o <<0>> /\ After(d, 0) = m
  <2>1. After(d, 0) = 0 + m /\ StringAt(d, 0) = r.data1 \o <<0>>
    BY <1>2, <1>7, StringFound DEF a, m
  <2> QED
    BY <1>2, <2>1
<1>9. StringAt(d, m) = r.data2 \o <<0>>
  BY <1>2, <1>3, <1>7, StringFound DEF b
<1>10. Arguments(r.op, d) = <<r.data1 \o <<0>>, r.data2 \o <<0>>>>
  BY <1>8, <1>9 DEF Arguments, deserialize_rename
<1>11. Meant(r) = <<r.data1 \o <<0>>, r.data2 \o <<0>>>>
  BY DEF Meant
<1> QED
  BY <1>6, <1>10, <1>11, CarriedUnderstood

\* close: a short.
LEMMA CloseUnderstood ==
    ASSUME NEW r, r.op = "close", Short(r.int1)
    PROVE  Understood(r)
<1> DEFINE d == Bytes(2, r.int1)
<1>1. r.op \in Operation
  BY DEF Operation, t_identifier_message
<1>2. d \in Seq(Byte) /\ Len(d) = 2
  BY ShortIs
<1>3. Serialize(r) = Package(r.op, 2, d)
  BY DEF Serialize, serialize_close, size_fd
<1>4. Carries(r, d)
  <2> DEFINE n == Len(d)
  <2>0. Word(2)
    BY Small
  <2>1. Word(n) /\ n = Len(d) /\ d \in Seq(Byte)
    BY <1>2, <2>0
  <2>2. Serialize(r) = Package(r.op, n, d)
    BY <1>2, <1>3
  <2> HIDE DEF d, n
  <2> QED
    BY <1>1, <2>1, <2>2, PackageIs DEF Carries
<1>5. Unsigned(Copy(d, 0, 2)) = r.int1
  BY <1>2, AtStart, ShortAt
<1> HIDE DEF d
<1>6. Arguments(r.op, d) = <<r.int1>> /\ Meant(r) = <<r.int1>>
  BY <1>5 DEF Arguments, size_fd, Meant
<1> QED
  BY <1>4, <1>6, CarriedUnderstood

\* read: the handle, the count and the offset.
LEMMA ReadUnderstood ==
    ASSUME NEW r, r.op = "read", Short(r.int1), Word(r.int2), Word(r.int3)
    PROVE  Understood(r)
<1> DEFINE a == Bytes(2, r.int1)
           b == Bytes(4, r.int2)
           c == Bytes(4, r.int3)
           d == (a \o b) \o c
<1>1. r.op \in Operation
  BY DEF Operation, t_identifier_message
<1>2. a \in Seq(Byte) /\ Len(a) = 2
  BY ShortIs
<1>3. b \in Seq(Byte) /\ Len(b) = 4 /\ c \in Seq(Byte) /\ Len(c) = 4
  BY WordIs
<1>4. Serialize(r) = Package(r.op, 10, d)
  BY DEF Serialize, serialize_read, size_fd, size_buffer, size_offset
<1> HIDE DEF a, b, c
<1>5. a \o b \in Seq(Byte) /\ Len(a \o b) = 6 /\ d \in Seq(Byte) /\ Len(d) = 10
  <2>1. a \o b \in Seq(Byte) /\ Len(a \o b) = Len(a) + Len(b)
    BY <1>2, <1>3, Joined
  <2>2. d \in Seq(Byte) /\ Len(d) = Len(a \o b) + Len(c)
    BY <1>3, <2>1, Joined
  <2> QED
    BY <1>2, <1>3, <2>1, <2>2
<1>6. Carries(r, d)
  <2> DEFINE n == Len(d)
  <2>1. Word(n) /\ n = Len(d) /\ d \in Seq(Byte)
    BY <1>5, Small
  <2>2. Serialize(r) = Package(r.op, n, d)
    BY <1>4, <1>5
  <2> HIDE DEF d, n
  <2> QED
    BY <1>1, <2>1, <2>2, PackageIs DEF Carries
<1>7. At(d, 0, a) /\ At(d, 2, b) /\ At(d, 6, c)
  <2>1. At(a \o b, 0, a) /\ At(a \o b, 2, b)
    BY <1>2, <1>3, AtStart, AtLeft, AtRight
  <2> QED
    BY <1>2, <1>3, <1>5, <2>1, AtLeft, AtRight
<1> HIDE DEF d
<1>8. /\ Unsigned(Copy(d, 0, 2)) = r.int1
      /\ Unsigned(Copy(d, 2, 4)) = r.int2
      /\ Unsigned(Copy(d, 6, 4)) = r.int3
  BY <1>7, ShortAt, WordAt DEF a, b, c
<1>9. Arguments(r.op, d) = <<r.int1, r.int2, r.int3>>
  BY <1>8 DEF Arguments, deserialize_read, size_fd, size_buffer, size_offset
<1>10. Meant(r) = <<r.int1, r.int2, r.int3>>
  BY DEF Meant
<1> QED
  BY <1>6, <1>9, <1>10, CarriedUnderstood

\* write: the handle, the count, as many bytes, and the offset.
LEMMA WriteUnderstood ==
    ASSUME SIZE_T = 4, NEW r, r.op = "write", Short(r.int1), LowWord(r.int2), Word(r.int3),
           r.data1 \in Seq(Byte), Len(r.data1) = r.int2
    PROVE  Understood(r)
<1> DEFINE a == Bytes(2, r.int1)
           b == Bytes(4, r.int2)
           c == r.data1
           e == Bytes(4, r.int3)
           n == r.int2
           d == ((a \o b) \o c) \o e
<1>1. r.op \in Operation
  BY DEF Operation, t_identifier_message
<1>2. a \in Seq(Byte) /\ Len(a) = 2 /\ n \in Nat /\ Word(n)
  BY ShortIs, Limits DEF LowWord
<1>3. b \in Seq(Byte) /\ Len(b) = 4 /\ e \in Seq(Byte) /\ Len(e) = 4
  BY <1>2, WordIs
<1>4. Serialize(r) = Package(r.op, 10 + n, d)
  <2>1. Copy(b, 0, 4) = b
    <3> HIDE DEF b
    <3>1. Copy(b, 0, Len(b)) = b
      BY <1>3, AtStart, CopyAt
    <3> QED
      BY <1>3, <3>1
  <2>2. Copy(c, 0, n) = c
    BY AtStart, CopyAt
  <2>3. 2 + 4 + n + 4 = 10 + n
    BY <1>2
  <2>4. Serialize(r) = serialize_write(r.int1, c, n, r.int3)
    BY DEF Serialize
  <2>5. serialize_write(r.int1, c, n, r.int3) = Package("write", 2 + 4 + n + 4, d)
    BY <2>1, <2>2 DEF serialize_write, size_fd, size_buffer, size_offset
  <2> HIDE DEF d
  <2> QED
    BY <2>3, <2>4, <2>5
<1>5. /\ a \o b \in Seq(Byte) /\ Len(a \o b) = 6
      /\ (a \o b) \o c \in Seq(Byte) /\ Len((a \o b) \o c) = 6 + n
      /\ d \in Seq(Byte) /\ Len(d) = 10 + n
  <2> HIDE DEF a, b, c, e, n
  <2>0. c \in Seq(Byte) /\ Len(c) = n
    BY DEF c, n
  <2>1. a \o b \in Seq(Byte) /\ Len(a \o b) = Len(a) + Len(b)
    BY <1>2, <1>3, Joined
  <2>2. (a \o b) \o c \in Seq(Byte) /\ Len((a \o b) \o c) = Len(a \o b) + Len(c)
    BY <2>0, <2>1, Joined
  <2>3. d \in Seq(Byte) /\ Len(d) = Len((a \o b) \o c) + Len(e)
    BY <1>3, <2>2, Joined
  <2> HIDE DEF d
  <2> QED
    BY <1>2, <1>3, <2>0, <2>1, <2>2, <2>3
<1>6. Carries(r, d)
  <2>1. Word(10 + n)
    BY DEF LowWord, Word
  <2> HIDE DEF d
  <2> QED
    BY <1>1, <1>4, <1>5, <2>1, PackageIs DEF Carries
<1>7. At(d, 0, a) /\ At(d, 2, b) /\ At(d, 6, c) /\ At(d, 6 + n, e)
  <2> HIDE DEF a, b, c, e, n
  <2>0. c \in Seq(Byte) /\ Len(c) = n
    BY DEF c, n
  <2>1. At(a \o b, 0, a) /\ At(a \o b, 2, b)
    BY <1>2, <1>3, AtStart, AtLeft, AtRight
  <2>2. /\ At((a \o b) \o c, 0, a) /\ At((a \o b) \o c, 2, b)
        /\ At((a \o b) \o c, 6, c)
    BY <1>2, <1>3, <1>5, <2>0, <2>1, AtLeft, AtRight
  <2>3. /\ At(d, 0, a) /\ At(d, 2, b) /\ At(d, 6, c)
    BY <1>2, <1>3, <1>5, <2>0, <2>2, AtLeft
  <2>4. At(d, 6 + n, e)
    BY <1>3, <1>5, AtRight
  <2> QED
    BY <2>3, <2>4
<1> HIDE DEF d
<1>8. /\ Unsigned(Copy(d, 0, 2)) = r.int1
      /\ Unsigned(Copy(d, 2, 4)) = n
      /\ Unsigned(Copy(d, 6 + n, 4)) = r.int3
  BY <1>2, <1>7, ShortAt, WordAt
<1>9. Copy(d, 6, n) = c
  BY <1>7, CopyAt
<1> HIDE DEF n, c
<1>10. Arguments(r.op, d) = <<r.int1, c, n, r.int3>>
  BY <1>8, <1>9 DEF Arguments, deserialize_write, size_fd, size_buffer, size_offset
<1>11. Meant(r) = <<r.int1, c, n, r.int3>>
  BY DEF Meant, c, n
<1> QED
  BY <1>6, <1>10, <1>11, CarriedUnderstood

\* Every request that fits its fields is understood.
LEMMA AskedUnderstood ==
    ASSUME SIZE_T = 4, NEW r, Askable(r)
    PROVE  Understood(r)
BY OpenUnderstood, PathUnderstood, RenameUnderstood, TruncateUnderstood, CloseUnderstood,
   ReadUnderstood, WriteUnderstood DEF Askable

\* A call the kernel makes: its name is one, its sizes fit, and it has a
\* handle when it needs one.
Made(h, f) ==
    \/ h.handler \in {"open", "create", "getattr", "unlink", "mkdir", "rmdir"} /\ h.name \in Name
    \/ h.handler = "readdir"
    \/ h.handler = "truncate" /\ h.name \in Name /\ h.size \in FileSize \cup {0}
    \/ h.handler = "rename" /\ h.name \in Name /\ h.new_name \in Name
    \/ h.handler = "release" /\ f # NoHandle
    \/ h.handler = "read" /\ f # NoHandle /\ h.size \in FileSize /\ h.offset = 0
    \/ /\ h.handler = "write" /\ f # NoHandle
       /\ h.size \in 1 .. DIR_ENTRIES /\ h.offset \in 0 .. DIR_ENTRIES
       /\ h.offset + h.size \in FileSize

\* What the client's call asks for, and its bytes.
Asked(c) == Request(client[c].call, fh[c].fd)
Sent(c)  == send_package(Serialize(Asked(c)))

\* The places of the client's thread and of the connection thread.
ClientPc == {"idle", "connected", "waiting", "exited"}
WorkerPc == {"none", "handshake", "function", "execute", "answer"}

\* The variables are functions and records over some set of values.
Over(S) ==
    /\ client \in [Client -> [pc : ClientPc, call : S, result : S]]
    /\ worker \in [Client -> [pc : WorkerPc, f : S, answer : S]]
    /\ fh \in [Client -> S] /\ to_server \in [Client -> S] /\ to_client \in [Client -> S]

\* The variables have their shape.
Shapes == \E S : Over(S)

\* The two ends of a connection agree: what is in it is the handshake, the
\* package of the call, or nothing, and the function is read from that package.
Connection(c) ==
    /\ client[c].pc = "idle" => worker[c].pc = "none"
    /\ client[c].pc = "connected" =>
          \/ worker[c].pc = "handshake" /\ to_server[c] = send_handshake
          \/ worker[c].pc = "function" /\ to_server[c] = <<>>
    /\ worker[c].pc # "none" => to_client[c] = <<>> /\ Made(client[c].call, fh[c])
    /\ worker[c].pc = "handshake" =>
          to_server[c] \in {send_handshake, send_handshake \o Sent(c)}
    /\ worker[c].pc = "function" => to_server[c] \in {<<>>, Sent(c)}
    /\ worker[c].pc = "execute" => worker[c].f = deserialize(receive_package(Sent(c)))

\* All connections.
Connections == Shapes /\ \A c \in Client : Connection(c)

\* A handle is the number of a node.
HandlesAreNodes == \A c \in Client : fh[c] = NoHandle \/ fh[c].fd \in NodeNum

\* The widths of the fields hold what is put into them: size_t has four bytes
\* at both ends, a path and the fields behind it fit a short, a node number
\* fits the two bytes of a file descriptor, and a size the four of a size_t.
WireFits ==
    /\ SIZE_T = 4
    /\ \A n \in Name : LowShort(Len(Spelling[n]) + 17)
    /\ NODE_TABLE_BLOCKS < 256 * 256
    /\ LowWord(DIR_ENTRIES)

-----------------------------------------------------------------------------
(***************************************************************************)
(* The inductive invariant.                                                *)
(***************************************************************************)
\* A connection in use; one whose request is still to be executed; one whose
\* request has been executed and whose answer has not been taken.
Busy(c)     == Pending(c) \/ worker[c].pc # "none"
Awaits(c)   == worker[c].pc \in {"handshake", "function", "execute"}
Executed(c) == worker[c].pc = "answer" \/ (client[c].pc = "waiting" /\ worker[c].pc = "none")

\* The threads of a FUSE process end together.
ExitTogether ==
    \/ \A c \in Client : client[c].pc = "exited"
    \/ \A c \in Client : client[c].pc # "exited"

\* The kernel keeps apart the calls that clash, as long as the server has them.
NoClashes ==
    \A c, d \in Client : c # d /\ Busy(c) /\ Busy(d) => ~Clash(client[c].call, client[d].call)

\* Some file has the name x in the root.
FileNamed(k, x) == \E n \in NodeNum : Holds(k, 0, n, x) /\ k.node[n].state = 1

\* Nodes with the same name in the root are of the same kind.
SameKind(k) ==
    \A x \in Name, n, m \in NodeNum :
        Holds(k, 0, n, x) /\ Holds(k, 0, m, x) => k.node[n].state = k.node[m].state

\* The root has the name x, and the node its first entry x leads to.
Has(k, x)   == exists_entry(k, k.node[0], x)
Leads(k, x) == get_entry(k, k.node[0], x).node_num

\* What the kernel has seen before a call still holds.
Ready(k, h) ==
    /\ h.handler = "open" => FileNamed(k, h.name)
    /\ h.handler = "create" => ~Has(k, h.name)
    /\ h.handler = "rename" =>
          /\ Has(k, h.name)
          /\ \A n, m \in NodeNum : Holds(k, 0, n, h.name) /\ Holds(k, 0, m, h.new_name)
                                      => k.node[n].state = k.node[m].state

\* The handle f does not lead to the file an unlink is about to remove.
Unopened(k, h, f) ==
    h.handler = "unlink" /\ f # NoHandle /\ Has(k, h.name) => Leads(k, h.name) # f.fd

\* The node n is a file, in the life b of those that g counts.
IsOpen(k, g, n, b) == n \in NodeNum \ {0} /\ Live(k, n) /\ k.node[n].state = 1 /\ g[n] = b

\* Where the answer to an open is, until its handler takes it.
Placed(c, n) ==
    /\ worker[c].pc = "answer" => worker[c].answer = create_default_package(n)
    /\ worker[c].pc = "none" => to_client[c] = send_package(create_default_package(n))

\* The answer to an open has the number of a node of that name, which is the
\* file in the life that was opened.
Opening(c, n) ==
    /\ Placed(c, n)
    /\ Up => Holds(fs, 0, n, client[c].call.name) /\ IsOpen(fs, birth, n, want[c].birth)

\* The calls that answer with a handle.
Opens(h) == h.handler \in {"open", "create"}

\* Every answer to an open, until it is taken.
Openings ==
    \A c \in Client : Opens(client[c].call) /\ Executed(c) => \E n \in NodeNum : Opening(c, n)

\* Every handle leads to the file it was opened for.
Handles == \A c \in Client : fh[c] # NoHandle => IsOpen(fs, birth, fh[c].fd, fh[c].birth)

\* What holds as long as the server runs: the disk is consistent, the kernel
\* keeps clashing calls apart, and what it has seen still holds.
Orderly ==
    /\ Inv(fs, {}) /\ SameKind(fs)
    /\ ExitTogether /\ NoClashes
    /\ \A c \in Client : Awaits(c) => Ready(fs, client[c].call)
    /\ \A c, d \in Client : Awaits(c) => Unopened(fs, client[c].call, fh[d])
    /\ Handles

\* The function want is defined for every client.
Wants == \E S : want \in [Client -> S]

\* The inductive invariant.
CallsInv ==
    /\ TypeOK
    /\ Connections
    /\ HandlesAreNodes
    /\ Wants
    /\ Openings
    /\ Up => Orderly

-----------------------------------------------------------------------------
(***************************************************************************)
(* Connections: what is on the way and what the server has made of it.     *)
(***************************************************************************)
\* The handlers ask for nothing that does not fit.
LEMMA MadeAskable ==
    ASSUME WireFits, NEW h, NEW f, Made(h, f), f = NoHandle \/ f.fd \in NodeNum
    PROVE  Askable(Request(h, f.fd))
<1> DEFINE r == Request(h, f.fd)
<1>1. \A n \in Name : Sendable(Path(n))
  <2> TAKE n \in Name
  <2>1. Spelling[n] \in Seq(Byte)
    <3>1. Spelling[n] \in Seq(Byte \ {0, 47})
      BY CallsAssumption
    <3> QED
      BY <3>1
  <2>2. <<47>> \in Seq(Byte) /\ Len(<<47>>) = 1
    BY DEF Byte
  <2>3. Path(n) \in Seq(Byte) /\ Len(Path(n)) = 1 + Len(Spelling[n])
    BY <2>1, <2>2, Joined DEF Path
  <2>4. Len(Spelling[n]) \in Nat /\ 1 + Len(Spelling[n]) + 16 = Len(Spelling[n]) + 17
    BY <2>1
  <2> QED
    BY <2>3, <2>4 DEF Sendable, WireFits
<1>2. Sendable(RootPath)
  BY DEF Sendable, RootPath, LowShort, Byte
<1>3. f # NoHandle => Short(f.fd)
  BY LayoutAssumption DEF WireFits, NodeNum, Short
<1>4. \A n \in 0 .. DIR_ENTRIES : LowWord(n)
  BY DEF WireFits, LowWord
<1>5. FileSize \cup {0} \subseteq 0 .. DIR_ENTRIES
  BY TreeAssumption, LayoutAssumption
<1>6. \A n \in Nat : Buffer(n) \in Seq(Byte) /\ Len(Buffer(n)) = n
  <2>1. \A k \in Nat : (64 + k) % 256 \in Byte
    BY DEF Byte
  <2> TAKE n \in Nat
  <2>2. Buffer(n) \in [1 .. n -> Byte]
    BY <2>1 DEF Buffer
  <2> QED
    BY <2>2
<1>7. CASE h.handler \in {"open", "create"} /\ h.name \in Name
  <2>1. r = Send("open", Path(h.name), <<>>, Flags[h.handler], 0, 0)
    BY <1>7 DEF Request
  <2>2. LowShort(Flags[h.handler])
    BY <1>7 DEF Flags, LowShort
  <2> QED
    BY <1>1, <1>7, <2>1, <2>2 DEF Askable, Send
<1>8. CASE h.handler \in {"getattr", "unlink", "rmdir"} /\ h.name \in Name
  <2>1. r.op \in {"stat", "remove", "rmdir"} /\ r.data1 = Path(h.name)
    BY <1>8 DEF Request, Send
  <2> QED
    BY <1>1, <1>8, <2>1 DEF Askable
<1>9. CASE h.handler = "mkdir" /\ h.name \in Name
  <2>1. r.op = "mkdir" /\ r.data1 = Path(h.name) /\ r.int1 = 511
    BY <1>9 DEF Request, Send
  <2>2. LowShort(511)
    BY DEF LowShort
  <2> QED
    BY <1>1, <1>9, <2>1, <2>2 DEF Askable
<1>10. CASE h.handler = "readdir"
  <2>1. r.op = "readdir" /\ r.data1 = RootPath
    BY <1>10 DEF Request, Send
  <2> QED
    BY <1>2, <2>1 DEF Askable
<1>11. CASE h.handler = "truncate" /\ h.name \in Name /\ h.size \in FileSize \cup {0}
  <2>1. r.op = "truncate" /\ r.data1 = Path(h.name) /\ r.int1 = h.size
    BY <1>11 DEF Request, Send
  <2> QED
    BY <1>1, <1>4, <1>5, <1>11, <2>1 DEF Askable
<1>12. CASE h.handler = "rename" /\ h.name \in Name /\ h.new_name \in Name
  <2>1. r.op = "rename" /\ r.data1 = Path(h.name) /\ r.data2 = Path(h.new_name)
    BY <1>12 DEF Request, Send
  <2> QED
    BY <1>1, <1>12, <2>1 DEF Askable
<1>13. CASE h.handler = "release" /\ f # NoHandle
  <2>1. r.op = "close" /\ r.int1 = f.fd
    BY <1>13 DEF Request, Send
  <2> QED
    BY <1>3, <1>13, <2>1 DEF Askable
<1>14. CASE h.handler = "read" /\ f # NoHandle /\ h.size \in FileSize /\ h.offset = 0
  <2>1. r.op = "read" /\ r.int1 = f.fd /\ r.int2 = h.size /\ r.int3 = h.offset
    BY <1>14 DEF Request, Send
  <2>2. Word(h.size) /\ Word(h.offset)
    BY <1>4, <1>5, <1>14, LayoutAssumption, Limits
  <2> QED
    BY <1>3, <1>14, <2>1, <2>2 DEF Askable
<1>15. CASE /\ h.handler = "write" /\ f # NoHandle
            /\ h.size \in 1 .. DIR_ENTRIES /\ h.offset \in 0 .. DIR_ENTRIES
  <2>1. /\ r.op = "write" /\ r.int1 = f.fd /\ r.int2 = h.size /\ r.int3 = h.offset
        /\ r.data1 = Buffer(h.size)
    BY <1>15 DEF Request, Send
  <2>2. LowWord(h.size) /\ Word(h.offset) /\ h.size \in Nat
    BY <1>4, <1>15, LayoutAssumption, Limits
  <2> QED
    BY <1>3, <1>6, <1>15, <2>1, <2>2 DEF Askable
<1> QED
  BY <1>7, <1>8, <1>9, <1>10, <1>11, <1>12, <1>13, <1>14, <1>15 DEF Made

\* A request on its way.
LEMMA SentIs ==
    ASSUME WireFits, HandlesAreNodes, NEW c \in Client, Made(client[c].call, fh[c])
    PROVE  /\ Understood(Asked(c))
           /\ Sent(c) \in Seq(Byte)
           /\ receive_package(Sent(c)) = Serialize(Asked(c))
<1>1. Askable(Asked(c))
  BY MadeAskable DEF Asked, HandlesAreNodes
<1>2. Understood(Asked(c))
  BY <1>1, AskedUnderstood DEF WireFits
<1>3. Sound(Serialize(Asked(c)))
  BY <1>2 DEF Understood
<1>4. <<>> \in Seq(Byte)
  OBVIOUS
<1>5. /\ Sent(c) \in Seq(Byte)
      /\ receive_package(Sent(c) \o <<>>) = Serialize(Asked(c))
  BY <1>3, <1>4, PackageSent DEF Sent
<1>6. Sent(c) \o <<>> = Sent(c)
  BY <1>5
<1> QED
  BY <1>2, <1>5, <1>6

\* The handshake is a package without data.
LEMMA HandshakeIs ==
    /\ send_handshake \in Seq(Byte)
    /\ \A t \in Seq(Byte) :
          /\ receive_package(send_handshake \o t).message_id = 0
          /\ Rest(send_handshake \o t) = t
    /\ receive_package(send_handshake).message_id = 0
    /\ Rest(send_handshake) = <<>>
<1> DEFINE p == Package("SAC", 0, <<>>)
<1>1. p = [message_id |-> 0, size |-> 0, data |-> <<>>]
  BY DEF Package, t_identifier_message, Copy
<1>2. send_handshake = send_package(p)
  BY DEF send_handshake
<1> HIDE DEF p
<1>3. Sound(p)
  <2>1. p.message_id = 0 /\ p.size = 0 /\ p.data = <<>>
    BY <1>1
  <2>2. <<>> \in Seq(Byte) /\ Len(<<>>) = 0 /\ 0 \in Byte
    BY DEF Byte
  <2>3. 0 < 256 * (256 * (256 * 256))
    OBVIOUS
  <2> QED
    BY <1>1, <2>1, <2>2, <2>3 DEF Sound, Identifier
<1>4. \A t \in Seq(Byte) :
          /\ receive_package(send_handshake \o t) = p
          /\ Rest(send_handshake \o t) = t
  <2> TAKE t \in Seq(Byte)
  <2> QED
    BY <1>2, <1>3, PackageSent
<1>5. <<>> \in Seq(Byte)
  OBVIOUS
<1>6. send_handshake \in Seq(Byte)
  BY <1>2, <1>3, <1>5, PackageSent
<1>7. send_handshake \o <<>> = send_handshake
  BY <1>6
<1>8. p.message_id = 0
  BY <1>1
<1>9. receive_package(send_handshake) = p /\ Rest(send_handshake) = <<>>
  BY <1>4, <1>5, <1>7
<1> QED
  BY <1>4, <1>6, <1>8, <1>9

\* The calls that are made.
LEMMA CallMade ==
    ASSUME NEW c \in Client, NEW h \in PathCalls \cup HandleCalls(c)
    PROVE  Made(h, fh[c])
<1>1. (\A x \in FileSize \cup {0} : x \in 0 .. DIR_ENTRIES) /\ DIR_ENTRIES \in Nat
  BY TreeAssumption, LayoutAssumption
<1>2. CASE h \in PathCalls
  <2>1. CASE h = Call("readdir", Junk, Junk, 0, 0)
    BY <2>1 DEF Call, Made
  <2>2. ASSUME NEW n \in Name,
               \/ h = Call("getattr", n, Junk, 0, 0)
               \/ h = Call("create", n, Junk, 0, 0)
               \/ h = Call("mkdir", n, Junk, 0, 0)
               \/ h = Call("open", n, Junk, 0, 0)
               \/ h = Call("unlink", n, Junk, 0, 0)
               \/ h = Call("rmdir", n, Junk, 0, 0)
        PROVE  Made(h, fh[c])
    BY <2>2 DEF Call, Made
  <2>3. ASSUME NEW n \in Name, NEW size \in FileSize \cup {0},
               h = Call("truncate", n, Junk, size, 0)
        PROVE  Made(h, fh[c])
    BY <2>3 DEF Call, Made
  <2>4. ASSUME NEW n \in Name, NEW m \in Name, h = Call("rename", n, m, 0, 0)
        PROVE  Made(h, fh[c])
    BY <2>4 DEF Call, Made
  <2> QED
    BY <1>2, <2>1, <2>2, <2>3, <2>4 DEF PathCalls
<1>3. CASE h \in HandleCalls(c)
  <2>1. fh[c] # NoHandle
    BY <1>3 DEF HandleCalls
  <2>2. CASE h = Call("release", HandleName(c), Junk, 0, 0)
    BY <2>1, <2>2 DEF Call, Made
  <2>3. ASSUME NEW size \in FileSize, h = Call("read", HandleName(c), Junk, size, 0)
        PROVE  Made(h, fh[c])
    BY <2>1, <2>3 DEF Call, Made
  <2>4. ASSUME NEW w \in (FileSize \cup {0}) \X FileSize, w[1] < w[2],
               h = Call("write", HandleName(c), Junk, w[2] - w[1], w[1])
        PROVE  Made(h, fh[c])
    <3>1. w[1] \in FileSize \cup {0} /\ w[2] \in FileSize
      OBVIOUS
    <3>2. w[1] \in 0 .. DIR_ENTRIES /\ w[2] \in 0 .. DIR_ENTRIES
      BY <1>1, <3>1
    <3>3. w[2] - w[1] \in 1 .. DIR_ENTRIES
      <4> DEFINE a == w[1]
                 b == w[2]
      <4>1. a \in 0 .. DIR_ENTRIES /\ b \in 0 .. DIR_ENTRIES /\ a < b
        BY <2>4, <3>2
      <4> HIDE DEF a, b
      <4>2. b - a \in 1 .. DIR_ENTRIES
        BY <1>1, <4>1
      <4> QED
        BY <4>2 DEF a, b
    <3> QED
      BY <2>1, <2>4, <3>2, <3>3 DEF Call, Made
  <2> QED
    BY <1>3, <2>1, <2>2, <2>3, <2>4 DEF HandleCalls
<1> QED
  BY <1>2, <1>3

\* At the beginning there is no connection.
LEMMA ConnectionsStart == CallsInit => Connections
<1> SUFFICES ASSUME CallsInit PROVE Connections
  OBVIOUS
<1> DEFINE S == {NoCall, Nothing, NoFunction, create_default_package(0), NoHandle, <<>>}
<1>1. Over(S)
  BY DEF CallsInit, Over, NoWorker, ClientPc, WorkerPc
<1>2. \A c \in Client : Connection(c)
  BY DEF CallsInit, Connection, NoWorker
<1> QED
  BY <1>1, <1>2 DEF Connections, Shapes

\* What of a connection a step of others may change.
LEMMA ConnectionStays ==
    ASSUME NEW d \in Client, Connection(d),
           worker'[d] = worker[d], fh'[d] = fh[d],
           to_server'[d] = to_server[d], to_client'[d] = to_client[d],
           client'[d].call = client[d].call, client'[d].pc \in {client[d].pc, "exited"}
    PROVE  Connection(d)'
BY DEF Connection, Sent, Asked

\* A process that ends leaves its connections to the server.
LEMMA ExitKeeps ==
    ASSUME Connections, NEW c \in Client,
           client' = [d \in Client |->
               IF Together(c, d) THEN [client[d] EXCEPT !.pc = "exited"] ELSE client[d]],
           UNCHANGED <<fh, to_server, to_client, worker>>
    PROVE  Connections'
<1>1. PICK S : Over(S)
  BY DEF Connections, Shapes
<1>2. ASSUME NEW d \in Client
      PROVE  /\ client'[d].call = client[d].call /\ client'[d].pc \in {client[d].pc, "exited"}
             /\ client'[d] \in [pc : ClientPc, call : S, result : S]
  BY <1>1 DEF Over, ClientPc
<1>3. Over(S)'
  BY <1>1, <1>2 DEF Over
<1>4. ASSUME NEW d \in Client
      PROVE  Connection(d)'
  BY <1>2, ConnectionStays DEF Connections
<1> QED
  BY <1>3, <1>4 DEF Connections, Shapes

\* StartCall.
LEMMA StartKeeps ==
    ASSUME Connections, NEW c \in Client, NEW h \in PathCalls \cup HandleCalls(c),
           StartCall(c, h)
    PROVE  Connections'
<1>1. Made(h, fh[c])
  BY CallMade
<1>2. client[c].pc = "idle" /\ worker[c].pc = "none"
  BY DEF StartCall, Connections, Connection
<1>3. PICK S : Over(S)
  BY DEF Connections, Shapes
<1>4. \A d \in Client : Connection(d)
  BY DEF Connections
<1>5. CASE ReturnsAtOnce(h)
  <2>1. /\ client' = [client EXCEPT ![c] = [pc |-> "idle", call |-> h, result |-> Nothing]]
        /\ fh' = [fh EXCEPT ![c] = IF h.handler = "release" THEN NoHandle ELSE @]
        /\ UNCHANGED <<to_server, to_client, worker>>
    BY <1>5 DEF StartCall
  <2>2. Over(S \cup {h, Nothing, NoHandle})'
    BY <1>3, <2>1 DEF Over, ClientPc
  <2>3. Connection(c)'
    <3>1. client'[c].pc = "idle" /\ worker'[c].pc = "none"
      BY <1>2, <1>3, <2>1 DEF Over
    <3> QED
      BY <3>1 DEF Connection
  <2>4. ASSUME NEW d \in Client \ {c}
        PROVE  Connection(d)'
    <3>1. client'[d] = client[d] /\ fh'[d] = fh[d]
      BY <1>3, <2>1 DEF Over
    <3> QED
      BY <1>4, <2>1, <3>1, ConnectionStays
  <2> QED
    BY <2>2, <2>3, <2>4 DEF Connections, Shapes
<1>6. CASE ~ReturnsAtOnce(h) /\ ~Up
  <2>1. /\ client' = [d \in Client |->
              IF Together(c, d) THEN [client[d] EXCEPT !.pc = "exited"] ELSE client[d]]
        /\ UNCHANGED <<fh, to_server, to_client, worker>>
    BY <1>6 DEF StartCall
  <2> QED
    BY <2>1, ExitKeeps
<1>7. CASE ~ReturnsAtOnce(h) /\ Up
  <2>1. /\ client' = [client EXCEPT ![c].pc = "connected", ![c].call = h]
        /\ to_server' = [to_server EXCEPT ![c] = send_handshake]
        /\ to_client' = [to_client EXCEPT ![c] = <<>>]
        /\ worker' = [worker EXCEPT ![c] = [NoWorker EXCEPT !.pc = "handshake"]]
        /\ UNCHANGED fh
    BY <1>7 DEF StartCall
  <2> DEFINE T == S \cup {h, NoFunction, create_default_package(0), send_handshake, <<>>}
  <2>2. /\ client'[c].pc = "connected" /\ client'[c].call = h
        /\ client' \in [Client -> [pc : ClientPc, call : T, result : T]]
        /\ \A d \in Client \ {c} : client'[d] = client[d]
    BY <1>3, <2>1 DEF Over, ClientPc
  <2>3. /\ worker'[c].pc = "handshake"
        /\ worker' \in [Client -> [pc : WorkerPc, f : T, answer : T]]
        /\ \A d \in Client \ {c} : worker'[d] = worker[d]
    BY <1>3, <2>1 DEF Over, WorkerPc, NoWorker
  <2>4. /\ to_server'[c] = send_handshake /\ to_client'[c] = <<>> /\ fh'[c] = fh[c]
        /\ fh' \in [Client -> T] /\ to_server' \in [Client -> T] /\ to_client' \in [Client -> T]
        /\ \A d \in Client \ {c} :
              to_server'[d] = to_server[d] /\ to_client'[d] = to_client[d] /\ fh'[d] = fh[d]
    BY <1>3, <2>1 DEF Over
  <2> HIDE DEF T
  <2>5. Over(T)'
    BY <2>2, <2>3, <2>4 DEF Over
  <2>6. Connection(c)'
    BY <1>1, <2>2, <2>3, <2>4 DEF Connection
  <2>7. ASSUME NEW d \in Client \ {c}
        PROVE  Connection(d)'
    BY <1>4, <2>2, <2>3, <2>4, ConnectionStays
  <2> QED
    BY <2>5, <2>6, <2>7 DEF Connections, Shapes
<1> QED
  BY <1>5, <1>6, <1>7

\* SendPackage.
LEMMA SendKeeps ==
    ASSUME WireFits, HandlesAreNodes, Connections, NEW c \in Client, SendPackage(c)
    PROVE  Connections'
<1>1. PICK S : Over(S)
  BY DEF Connections, Shapes
<1>2. \A d \in Client : Connection(d)
  BY DEF Connections
<1>3. /\ client[c].pc = "connected"
      /\ client' = [client EXCEPT ![c].pc = "waiting"]
      /\ to_server' = [to_server EXCEPT ![c] = @ \o Sent(c)]
      /\ UNCHANGED <<fh, to_client, worker>>
  BY DEF SendPackage, Sent, Asked
<1>4. /\ Made(client[c].call, fh[c])
      /\ \/ worker[c].pc = "handshake" /\ to_server[c] = send_handshake
         \/ worker[c].pc = "function" /\ to_server[c] = <<>>
  BY <1>2, <1>3 DEF Connection
<1>5. <<>> \o Sent(c) = Sent(c)
  <2>1. Sent(c) \in Seq(Byte)
    BY <1>4, SentIs
  <2> QED
    BY <2>1
<1>6. PICK x : x = to_server[c] \o Sent(c)
  OBVIOUS
<1> DEFINE T == S \cup {x}
<1>7. /\ client'[c].pc = "waiting" /\ client'[c].call = client[c].call
      /\ client' \in [Client -> [pc : ClientPc, call : T, result : T]]
      /\ \A d \in Client \ {c} : client'[d] = client[d]
  BY <1>1, <1>3 DEF Over, ClientPc
<1>8. /\ to_server'[c] = to_server[c] \o Sent(c)
      /\ to_server' \in [Client -> T]
      /\ \A d \in Client \ {c} : to_server'[d] = to_server[d]
  BY <1>1, <1>3, <1>6 DEF Over
<1>9. /\ worker' \in [Client -> [pc : WorkerPc, f : T, answer : T]]
      /\ fh' \in [Client -> T] /\ to_client' \in [Client -> T]
  BY <1>1, <1>3 DEF Over
<1> HIDE DEF T
<1>10. Over(T)'
  <2>1. client' \in [Client -> [pc : ClientPc, call : T, result : T]]
    BY <1>7
  <2>2. to_server' \in [Client -> T]
    BY <1>8
  <2> QED
    BY <2>1, <2>2, <1>9 DEF Over
<1>11. Connection(c)'
  <2>1. Sent(c)' = Sent(c)
    BY <1>3, <1>7 DEF Sent, Asked
  <2>2. worker'[c] = worker[c] /\ fh'[c] = fh[c] /\ to_client'[c] = to_client[c]
    BY <1>3
  <2>3. /\ to_client[c] = <<>>
        /\ worker[c].pc = "handshake" => to_server'[c] = send_handshake \o Sent(c)
        /\ worker[c].pc = "function" => to_server'[c] = Sent(c)
        /\ worker[c].pc \in {"handshake", "function"}
    BY <1>2, <1>4, <1>5, <1>8 DEF Connection
  <2> QED
    BY <1>4, <1>7, <2>1, <2>2, <2>3 DEF Connection
<1>12. ASSUME NEW d \in Client \ {c}
       PROVE  Connection(d)'
  BY <1>2, <1>3, <1>7, <1>8, ConnectionStays
<1> QED
  BY <1>10, <1>11, <1>12 DEF Connections, Shapes

\* ReceiveAnswer.
LEMMA ReceiveAnswerKeeps ==
    ASSUME Connections, NEW c \in Client, ReceiveAnswer(c)
    PROVE  Connections'
<1>1. PICK S : Over(S)
  BY DEF Connections, Shapes
<1>2. \A d \in Client : Connection(d)
  BY DEF Connections
<1>3. worker[c].pc = "none"
  <2>1. ~Complete(<<>>)
    BY DEF Complete, HEAD_SIZE
  <2> QED
    BY <1>2, <2>1 DEF ReceiveAnswer, Connection
<1>4. PICK x, y :
         /\ client' = [client EXCEPT ![c] = [pc |-> "idle", call |-> client[c].call, result |-> x]]
         /\ fh' = [fh EXCEPT ![c] = y]
         /\ to_client' = [to_client EXCEPT ![c] = <<>>]
         /\ UNCHANGED <<to_server, worker>>
  <2> DEFINE p == receive_package(to_client[c])
             h == client[c].call
             x == Handled(h, p)
             y == IF h.handler = "release" THEN NoHandle
                  ELSE IF h.handler \in {"open", "create"} /\ p.message_id >= 0
                    THEN [fd |-> p.message_id, birth |-> want[c].birth] ELSE fh[c]
  <2>1. /\ client' = [client EXCEPT ![c] = [pc |-> "idle", call |-> h, result |-> x]]
        /\ fh' = [fh EXCEPT ![c] = y]
        /\ to_client' = [to_client EXCEPT ![c] = <<>>]
        /\ UNCHANGED <<to_server, worker>>
    BY DEF ReceiveAnswer
  <2> HIDE DEF x, y
  <2> QED
    BY <2>1
<1> DEFINE T == S \cup {x, y, <<>>}
<1>5. Over(T)'
  <2>1. client' \in [Client -> [pc : ClientPc, call : T, result : T]]
    BY <1>1, <1>4 DEF Over, ClientPc
  <2>2. worker' \in [Client -> [pc : WorkerPc, f : T, answer : T]]
    BY <1>1, <1>4 DEF Over
  <2>3. fh' \in [Client -> T] /\ to_client' \in [Client -> T] /\ to_server' \in [Client -> T]
    BY <1>1, <1>4 DEF Over
  <2> QED
    BY <2>1, <2>2, <2>3 DEF Over
<1>6. Connection(c)'
  <2>1. client'[c].pc = "idle" /\ worker'[c].pc = "none"
    BY <1>1, <1>3, <1>4 DEF Over
  <2> QED
    BY <2>1 DEF Connection
<1>7. ASSUME NEW d \in Client \ {c}
      PROVE  Connection(d)'
  <2>1. client'[d] = client[d] /\ fh'[d] = fh[d] /\ to_client'[d] = to_client[d]
    BY <1>1, <1>4 DEF Over
  <2> QED
    BY <1>2, <1>4, <2>1, ConnectionStays
<1> QED
  BY <1>5, <1>6, <1>7 DEF Connections, Shapes

\* LoseServer.
LEMMA LoseKeeps ==
    ASSUME Connections, NEW c \in Client, LoseServer(c)
    PROVE  Connections'
<1>1. PICK S : Over(S)
  BY DEF Connections, Shapes
<1>2. /\ client' = [client EXCEPT ![c].pc = "exited"]
      /\ UNCHANGED <<fh, to_server, to_client, worker>>
  BY DEF LoseServer
<1>3. /\ client' \in [Client -> [pc : ClientPc, call : S, result : S]]
      /\ \A d \in Client : /\ client'[d].call = client[d].call
                           /\ client'[d].pc \in {client[d].pc, "exited"}
  BY <1>1, <1>2 DEF Over, ClientPc
<1>4. Over(S)'
  BY <1>1, <1>2, <1>3 DEF Over
<1>5. ASSUME NEW d \in Client
      PROVE  Connection(d)'
  BY <1>2, <1>3, ConnectionStays DEF Connections
<1> QED
  BY <1>4, <1>5 DEF Connections, Shapes

\* A step of c's connection thread: what remains is what it leaves of c.
LEMMA WorkerKeeps ==
    ASSUME Connections, NEW c \in Client, NEW w, NEW s, NEW t,
           w.pc \in WorkerPc, w = [pc |-> w.pc, f |-> w.f, answer |-> w.answer],
           worker' = [worker EXCEPT ![c] = w],
           to_server' = [to_server EXCEPT ![c] = s],
           to_client' = [to_client EXCEPT ![c] = t],
           UNCHANGED <<client, fh>>,
           worker'[c] = w /\ to_server'[c] = s /\ to_client'[c] = t => Connection(c)'
    PROVE  Connections'
<1>1. PICK S : Over(S)
  BY DEF Connections, Shapes
<1> DEFINE T == S \cup {w.f, w.answer, s, t}
<1>2. w \in [pc : WorkerPc, f : T, answer : T]
  OBVIOUS
<1>3. /\ worker' \in [Client -> [pc : WorkerPc, f : T, answer : T]]
      /\ worker'[c] = w /\ \A d \in Client \ {c} : worker'[d] = worker[d]
  <2>1. worker \in [Client -> [pc : WorkerPc, f : T, answer : T]]
    BY <1>1 DEF Over
  <2> HIDE DEF T
  <2> QED
    BY <1>2, <2>1
<1>4. /\ to_server' \in [Client -> T] /\ to_client' \in [Client -> T]
      /\ to_server'[c] = s /\ to_client'[c] = t
      /\ \A d \in Client \ {c} : to_server'[d] = to_server[d] /\ to_client'[d] = to_client[d]
  BY <1>1 DEF Over
<1>5. client' \in [Client -> [pc : ClientPc, call : T, result : T]] /\ fh' \in [Client -> T]
  BY <1>1 DEF Over
<1> HIDE DEF T
<1>6. Over(T)'
  BY <1>3, <1>4, <1>5 DEF Over
<1>7. ASSUME NEW d \in Client \ {c}
      PROVE  Connection(d)'
  BY <1>3, <1>4, ConnectionStays DEF Connections
<1>8. Connection(c)'
  BY <1>3, <1>4
<1> QED
  BY <1>6, <1>7, <1>8 DEF Connections, Shapes

\* Die.
LEMMA DieKeeps ==
    ASSUME Connections, NEW c \in Client, Die(c)
    PROVE  Connections'
BY ExitKeeps DEF Die

\* ReceiveHandshake: the package may already be behind the handshake.
LEMMA HandshakeKeeps ==
    ASSUME WireFits, HandlesAreNodes, Connections, NEW c \in Client, ReceiveHandshake(c)
    PROVE  Connections'
<1>1. PICK S : Over(S)
  BY DEF Connections, Shapes
<1>2. Connection(c)
  BY DEF Connections
<1>3. /\ worker[c].pc = "handshake" /\ to_client[c] = <<>>
      /\ Made(client[c].call, fh[c])
      /\ to_server[c] \in {send_handshake, send_handshake \o Sent(c)}
      /\ client[c].pc # "idle"
      /\ client[c].pc = "connected" => to_server[c] = send_handshake
  BY <1>2 DEF ReceiveHandshake, Connection
<1>4. Sent(c) \in Seq(Byte)
  BY <1>3, SentIs
<1>5. /\ receive_package(to_server[c]).message_id = 0
      /\ Rest(to_server[c]) \in {<<>>, Sent(c)}
      /\ client[c].pc = "connected" => Rest(to_server[c]) = <<>>
  BY <1>3, <1>4, HandshakeIs
<1> DEFINE w == [pc |-> "function", f |-> worker[c].f, answer |-> worker[c].answer]
           s == Rest(to_server[c])
<1>6. worker' = [worker EXCEPT ![c].pc = "function"]
  BY <1>5 DEF ReceiveHandshake, t_identifier_message
<1>7. worker' = [worker EXCEPT ![c] = w]
  <2>1. worker[c] \in [pc : WorkerPc, f : S, answer : S]
    BY <1>1 DEF Over
  <2>2. [worker[c] EXCEPT !.pc = "function"] = w
    BY <2>1
  <2>3. worker' = [worker EXCEPT ![c] = [worker[c] EXCEPT !.pc = "function"]]
    BY <1>6
  <2> QED
    BY <2>2, <2>3
<1>8. /\ to_server' = [to_server EXCEPT ![c] = s]
      /\ UNCHANGED <<client, fh, to_client>>
  BY DEF ReceiveHandshake
<1>9. to_client' = [to_client EXCEPT ![c] = to_client[c]]
  BY <1>1, <1>8 DEF Over
<1>10. /\ w.pc \in WorkerPc /\ w.pc = "function"
       /\ w = [pc |-> w.pc, f |-> w.f, answer |-> w.answer]
  BY DEF WorkerPc
<1> HIDE DEF w
<1>11. worker'[c] = w /\ to_server'[c] = s /\ to_client'[c] = to_client[c] => Connection(c)'
  <2> SUFFICES ASSUME worker'[c] = w, to_server'[c] = s, to_client'[c] = to_client[c]
               PROVE  Connection(c)'
    OBVIOUS
  <2>1. Sent(c)' = Sent(c)
    BY <1>8 DEF Sent, Asked
  <2>2. client'[c] = client[c] /\ fh'[c] = fh[c]
    BY <1>8
  <2>3. worker'[c].pc = "function"
    BY <1>10
  <2> QED
    BY <1>3, <1>5, <2>1, <2>2, <2>3 DEF Connection
<1> HIDE DEF s
<1> QED
  BY <1>7, <1>8, <1>9, <1>10, <1>11, WorkerKeeps

\* ReceiveFunction.
LEMMA FunctionKeeps ==
    ASSUME WireFits, HandlesAreNodes, Connections, NEW c \in Client, ReceiveFunction(c)
    PROVE  Connections'
<1>1. PICK S : Over(S)
  BY DEF Connections, Shapes
<1>2. Connection(c)
  BY DEF Connections
<1>3. /\ worker[c].pc = "function" /\ to_client[c] = <<>>
      /\ Made(client[c].call, fh[c])
      /\ to_server[c] \in {<<>>, Sent(c)}
      /\ client[c].pc # "idle"
  BY <1>2 DEF ReceiveFunction, Connection
<1>4. ~Complete(<<>>)
  BY DEF Complete, HEAD_SIZE
<1>5. client[c].pc # "connected"
  BY <1>2, <1>3, <1>4 DEF ReceiveFunction, Connection
<1>6. /\ to_server' = [to_server EXCEPT ![c] = <<>>]
      /\ UNCHANGED <<client, fh, to_client>>
  BY DEF ReceiveFunction
<1>7. to_client' = [to_client EXCEPT ![c] = to_client[c]]
  BY <1>1, <1>6 DEF Over
<1>8. worker[c] = [pc |-> worker[c].pc, f |-> worker[c].f, answer |-> worker[c].answer]
      /\ worker[c].pc \in WorkerPc
  BY <1>1 DEF Over
<1> DEFINE f == deserialize(receive_package(to_server[c]))
<1>9. CASE Complete(to_server[c]) /\ f # NoFunction
  <2> DEFINE w == [pc |-> "execute", f |-> f, answer |-> worker[c].answer]
  <2>1. to_server[c] = Sent(c)
    BY <1>3, <1>4, <1>9
  <2>2. worker' = [worker EXCEPT ![c].pc = "execute", ![c].f = f]
    BY <1>9 DEF ReceiveFunction
  <2> HIDE DEF f
  <2>3. worker' = [worker EXCEPT ![c] = w]
    <3>1. worker \in [Client -> [pc : WorkerPc, f : S, answer : S]]
      BY <1>1 DEF Over
    <3>2. worker'[c] = w
      BY <2>2, <3>1
    <3> QED
      BY <2>2, <3>1, <3>2
  <2>4. /\ w.pc \in WorkerPc /\ w.pc = "execute" /\ w.f = f
        /\ w = [pc |-> w.pc, f |-> w.f, answer |-> w.answer]
    BY DEF WorkerPc
  <2> HIDE DEF w
  <2>5. worker'[c] = w /\ to_server'[c] = <<>> /\ to_client'[c] = to_client[c] => Connection(c)'
    <3> SUFFICES ASSUME worker'[c] = w, to_server'[c] = <<>>, to_client'[c] = to_client[c]
                 PROVE  Connection(c)'
      OBVIOUS
    <3>1. Sent(c)' = Sent(c)
      BY <1>6 DEF Sent, Asked
    <3>2. client'[c] = client[c] /\ fh'[c] = fh[c]
      BY <1>6
    <3>3. worker'[c].pc = "execute" /\ worker'[c].f = deserialize(receive_package(Sent(c)'))
      BY <2>1, <2>4, <3>1 DEF f
    <3> QED
      BY <1>3, <1>5, <3>2, <3>3 DEF Connection
  <2> QED
    BY <1>6, <1>7, <2>3, <2>4, <2>5, WorkerKeeps
<1>10. CASE ~(Complete(to_server[c]) /\ f # NoFunction)
  <2>1. worker' = worker
    BY <1>10 DEF ReceiveFunction
  <2>2. worker' = [worker EXCEPT ![c] = worker[c]]
    BY <1>1, <2>1 DEF Over
  <2>3. /\ worker'[c] = worker[c] /\ to_server'[c] = <<>> /\ to_client'[c] = to_client[c]
           => Connection(c)'
    <3> SUFFICES ASSUME worker'[c] = worker[c], to_server'[c] = <<>>, to_client'[c] = to_client[c]
                 PROVE  Connection(c)'
      OBVIOUS
    <3>1. client'[c] = client[c] /\ fh'[c] = fh[c]
      BY <1>6
    <3> QED
      BY <1>3, <1>5, <3>1 DEF Connection
  <2> QED
    BY <1>6, <1>7, <1>8, <2>2, <2>3, WorkerKeeps
<1> QED
  BY <1>9, <1>10

\* Execute.
LEMMA ExecuteKeeps ==
    ASSUME Connections, NEW c \in Client, Execute(c)
    PROVE  Connections'
<1>1. PICK S : Over(S)
  BY DEF Connections, Shapes
<1>2. Connection(c)
  BY DEF Connections
<1>3. /\ worker[c].pc = "execute" /\ to_client[c] = <<>>
      /\ Made(client[c].call, fh[c])
      /\ client[c].pc \notin {"idle", "connected"}
  BY <1>2 DEF Execute, Connection
<1>4. PICK a : worker' = [worker EXCEPT ![c].pc = "answer", ![c].answer = a]
  <2> DEFINE a == execute(worker[c].f).answer
  <2>1. worker' = [worker EXCEPT ![c].pc = "answer", ![c].answer = a]
    BY DEF Execute
  <2> HIDE DEF a
  <2> QED
    BY <2>1
<1>5. UNCHANGED <<client, fh, to_server, to_client>>
  BY DEF Execute
<1> DEFINE w == [pc |-> "answer", f |-> worker[c].f, answer |-> a]
<1>6. worker' = [worker EXCEPT ![c] = w]
  <2>1. worker \in [Client -> [pc : WorkerPc, f : S, answer : S]]
    BY <1>1 DEF Over
  <2>2. worker'[c] = w
    BY <1>4, <2>1
  <2> QED
    BY <1>4, <2>1, <2>2
<1>7. /\ to_server' = [to_server EXCEPT ![c] = to_server[c]]
      /\ to_client' = [to_client EXCEPT ![c] = to_client[c]]
  BY <1>1, <1>5 DEF Over
<1>8. /\ w.pc \in WorkerPc /\ w.pc = "answer"
      /\ w = [pc |-> w.pc, f |-> w.f, answer |-> w.answer]
  BY DEF WorkerPc
<1> HIDE DEF w
<1>9. /\ worker'[c] = w /\ to_server'[c] = to_server[c] /\ to_client'[c] = to_client[c]
         => Connection(c)'
  BY <1>3, <1>5, <1>8 DEF Connection
<1>10. UNCHANGED <<client, fh>>
  BY <1>5
<1> QED
  BY <1>6, <1>7, <1>8, <1>9, <1>10, WorkerKeeps

\* SendAnswer.
LEMMA AnswerKeeps ==
    ASSUME Connections, NEW c \in Client, SendAnswer(c)
    PROVE  Connections'
<1>1. PICK S : Over(S)
  BY DEF Connections, Shapes
<1>2. client[c].pc \notin {"idle", "connected"}
  BY DEF Connections, Connection, SendAnswer
<1> DEFINE t == send_package(worker[c].answer)
<1>3. /\ worker' = [worker EXCEPT ![c] = NoWorker]
      /\ to_client' = [to_client EXCEPT ![c] = t]
      /\ UNCHANGED <<client, fh, to_server>>
  BY DEF SendAnswer
<1> HIDE DEF t
<1>4. to_server' = [to_server EXCEPT ![c] = to_server[c]]
  BY <1>1, <1>3 DEF Over
<1>5. /\ NoWorker.pc \in WorkerPc /\ NoWorker.pc = "none"
      /\ NoWorker = [pc |-> NoWorker.pc, f |-> NoWorker.f, answer |-> NoWorker.answer]
  BY DEF WorkerPc, NoWorker
<1>6. worker'[c] = NoWorker /\ to_server'[c] = to_server[c] /\ to_client'[c] = t => Connection(c)'
  BY <1>2, <1>3, <1>5 DEF Connection
<1> QED
  BY <1>3, <1>4, <1>5, <1>6, WorkerKeeps

\* Nothing happens.
LEMMA StutterKeeps ==
    ASSUME Connections, UNCHANGED allVars
    PROVE  Connections'
<1>1. UNCHANGED <<client, fh, to_server, to_client, worker>>
  BY DEF allVars, callVars
<1>2. PICK S : Over(S)
  BY DEF Connections, Shapes
<1>3. Over(S)'
  BY <1>1, <1>2 DEF Over
<1>4. ASSUME NEW d \in Client
      PROVE  Connection(d)'
  BY <1>1, ConnectionStays DEF Connections
<1> QED
  BY <1>3, <1>4 DEF Connections, Shapes

\* What a thread executes is read from the package of its call.
LEMMA ConnectionsGiveAsked ==
    ASSUME WireFits, HandlesAreNodes, Connections
    PROVE  ExecutesWhatWasAsked
<1> SUFFICES ASSUME NEW c \in Client, worker[c].pc = "execute"
             PROVE  /\ worker[c].f.op = Asked(c).op
                    /\ \A i \in DOMAIN Meant(Asked(c)) : worker[c].f.args[i] = Meant(Asked(c))[i]
  BY DEF ExecutesWhatWasAsked, Asked
<1>1. /\ worker[c].f = deserialize(receive_package(Sent(c)))
      /\ Made(client[c].call, fh[c])
  BY DEF Connections, Connection
<1>2. Understood(Asked(c)) /\ receive_package(Sent(c)) = Serialize(Asked(c))
  BY <1>1, SentIs
<1> QED
  BY <1>1, <1>2 DEF Understood

-----------------------------------------------------------------------------
(***************************************************************************)
(* What a call does to the names and the nodes of the disk.                *)
(***************************************************************************)
-----------------------------------------------------------------------------
(***************************************************************************)
(* What the execution of one call leaves of what the others rely on.       *)
(***************************************************************************)

\* The call h makes the node n, removes the node its name leads to, or
\* renames it.
Creating(k, l, h, n) ==
    /\ h.handler \in {"create", "mkdir"} /\ ~Has(k, h.name)
    /\ n \in NodeNum \ {0} /\ ~Live(k, n)
    /\ Links(k, l, n, 0, h.name)

Removing(k, l, h) ==
    /\ h.handler \in {"unlink", "rmdir"} /\ Has(k, h.name)
    /\ Unlinks(k, l, Leads(k, h.name))
    /\ h.handler = "rmdir" => k.node[Leads(k, h.name)].state # 1

Renaming(k, l, h) ==
    /\ h.handler = "rename" /\ Has(k, h.name)
    /\ h.new_name \in Name
    /\ Links(k, l, Leads(k, h.name), 0, h.new_name)
    /\ l.node[Leads(k, h.name)].state = k.node[Leads(k, h.name)].state

\* What a call may do.
Executing(k, l, h) ==
    \/ KinAll(k, l) /\ SameDirs(k, l)
    \/ \E n \in NodeNum : Creating(k, l, h, n)
    \/ Removing(k, l, h)
    \/ Renaming(k, l, h)

\* The node a name leads to has that name.
LEMMA LeadsTo ==
    ASSUME NEW k, Inv(k, {}), NEW x, Has(k, x)
    PROVE  /\ Leads(k, x) \in NodeNum \ {0} /\ Live(k, Leads(k, x))
           /\ Holds(k, 0, Leads(k, x), x)
           /\ Live(k, 0) /\ IsDir(k, 0)
<1>1. IsDir(k, 0) /\ 0 \in NodeNum
  BY Regions DEF Inv, RootLive, IsDir
<1>2. PICK i, c : i = Least(Matches(k, k.node[0], x)) /\ c = get_entry(k, k.node[0], x).node_num
  OBVIOUS
<1>3. /\ i \in Places(k.node[0]) /\ c = Entry(k, 0, i).node_num
      /\ EntryOK(k, {}, 0, Entry(k, 0, i))
  BY <1>1, <1>2, GetEntry DEF Has
<1>4. c \in NodeNum \ {0} /\ Live(k, c)
  BY <1>3 DEF EntryOK
<1>5. Entry(k, 0, i).name = x
  <2>1. Matches(k, k.node[0], x) # {} /\ Matches(k, k.node[0], x) \subseteq Places(k.node[0])
    BY DEF Has, exists_entry, Matches
  <2>2. Places(k.node[0]) \subseteq Nat
    <3>1. k \in Disk /\ NodeOK(k, 0)
      BY <1>1 DEF Inv, NodesOK, IsDir
    <3>2. Places(k.node[0]) = 0 .. k.node[0].file_size - 1 /\ k.node[0].file_size \in Nat
      BY <1>1, <3>1, PlacesInBlock
    <3> QED
      BY <3>2
  <2>3. i \in Matches(k, k.node[0], x)
    BY <1>2, <2>1, <2>2, LeastExists
  <2> QED
    BY <2>3 DEF Matches, Entry
<1>6. Holds(k, 0, c, x)
  BY <1>1, <1>3, <1>5 DEF Holds
<1> QED
  BY <1>1, <1>2, <1>4, <1>6 DEF Leads, IsDir

\* A name some node has leads to a node.
LEMMA HeldHas ==
    ASSUME NEW k, NEW n, NEW x, Holds(k, 0, n, x)
    PROVE  Has(k, x)
BY DEF Holds, Has, exists_entry, Matches, Entry

\* A node has one name in the root.
LEMMA OneName ==
    ASSUME NEW k, Inv(k, {}), NEW n \in NodeNum \ {0}, NEW x, NEW y,
           Holds(k, 0, n, x), Holds(k, 0, n, y)
    PROVE  x = y
BY HeldName, Regions

\* Only live nodes other than the root have names.
LEMMA HeldLive ==
    ASSUME NEW k, Inv(k, {}), NEW n, NEW x, Holds(k, 0, n, x)
    PROVE  n \in NodeNum \ {0} /\ Live(k, n) /\ x \in Name
<1>1. EntriesOK(k, {}) /\ IsDir(k, 0) /\ 0 \in NodeNum
  BY Regions DEF Inv, Holds
<1>2. PICK i \in Places(k.node[0]) : Entry(k, 0, i).node_num = n /\ Entry(k, 0, i).name = x
  BY DEF Holds
<1> QED
  BY <1>1, <1>2 DEF EntriesOK, EntryOK

\* A node that had a name and is not the one the call removes or renames
\* keeps its name, its kind and its life.
LEMMA OthersStay ==
    ASSUME NEW k, NEW l, Inv(k, {}), NEW h, Executing(k, l, h),
           NEW n \in NodeNum \ {0}, Live(k, n), Takes(h) => n # Leads(k, h.name)
    PROVE  Kin(k, l, n)
BY DEF Executing, KinAll, Creating, Links, Removing, Unlinks, Renaming, Takes

\* A name that no call takes stays with its node.
LEMMA NamesStay ==
    ASSUME NEW k, NEW l, Inv(k, {}), NEW h, Executing(k, l, h),
           NEW n, NEW x, Holds(k, 0, n, x), Takes(h) /\ Has(k, h.name) => h.name # x
    PROVE  Holds(l, 0, n, x) /\ Live(l, n) /\ l.node[n].state = k.node[n].state
<1>1. n \in NodeNum \ {0} /\ Live(k, n) /\ x \in Name
  BY HeldLive
<1>2. CASE Takes(h) /\ Has(k, h.name)
  <2>1. n # Leads(k, h.name)
    <3>1. Leads(k, h.name) \in NodeNum /\ Holds(k, 0, Leads(k, h.name), h.name)
      BY <1>2, LeadsTo
    <3> QED
      BY <1>1, <1>2, <3>1, OneName
  <2>2. Kin(k, l, n)
    BY <1>1, <2>1, OthersStay
  <2> QED
    BY <1>1, <2>2, Regions DEF Kin, KeepsName
<1>3. CASE ~(Takes(h) /\ Has(k, h.name))
  <2>1. Kin(k, l, n)
    BY <1>1, <1>3 DEF Executing, KinAll, Creating, Links, Removing, Renaming, Takes
  <2> QED
    BY <1>1, <2>1, Regions DEF Kin, KeepsName
<1> QED
  BY <1>2, <1>3

\* A name found after a step that keeps every node was there before.
LEMMA NamesBefore ==
    ASSUME NEW k, NEW l, Inv(k, {}), Inv(l, {}), NEW n, Kin(k, l, n),
           NEW x, Holds(l, 0, n, x)
    PROVE  Holds(k, 0, n, x)
<1>1. n \in NodeNum \ {0} /\ Live(l, n)
  BY HeldLive
<1>2. Live(k, n)
  BY <1>1 DEF Kin
<1> QED
  BY <1>1, <1>2, KinHeldBefore, Regions

\* Nodes of one name stay of one kind.
LEMMA KindsStay ==
    ASSUME NEW k, NEW l, Inv(k, {}), Inv(l, {}), SameKind(k), NEW h, Executing(k, l, h),
           Ready(k, h)
    PROVE  SameKind(l)
<1> SUFFICES ASSUME NEW x \in Name, NEW n \in NodeNum, NEW m \in NodeNum,
                    Holds(l, 0, n, x), Holds(l, 0, m, x)
             PROVE  l.node[n].state = l.node[m].state
  BY DEF SameKind
<1>0. ASSUME NEW a \in NodeNum, NEW b \in NodeNum, Kin(k, l, a), Kin(k, l, b),
             Holds(l, 0, a, x), Holds(l, 0, b, x)
      PROVE  l.node[a].state = l.node[b].state
  <2>1. Holds(k, 0, a, x) /\ Holds(k, 0, b, x)
    BY <1>0, NamesBefore
  <2>2. k.node[a].state = k.node[b].state
    BY <2>1 DEF SameKind
  <2> QED
    BY <1>0, <2>2 DEF Kin
<1>1. CASE KinAll(k, l)
  BY <1>0, <1>1 DEF KinAll
<1>2. ASSUME NEW c \in NodeNum, Creating(k, l, h, c)
      PROVE  l.node[n].state = l.node[m].state
  <2>1. \A o \in NodeNum \ {c} : Kin(k, l, o)
    BY <1>2 DEF Creating, Links
  <2>2. Inv(l, {}) /\ Holds(l, 0, c, h.name) /\ c \in NodeNum \ {0}
    BY <1>2 DEF Creating, Links
  <2>3. ASSUME NEW o \in NodeNum \ {c}, Holds(l, 0, o, x), Holds(l, 0, c, x)
        PROVE  FALSE
    <3>1. h.name = x
      BY <2>2, <2>3, OneName
    <3>2. Holds(k, 0, o, x)
      BY <2>1, <2>3, NamesBefore
    <3> QED
      BY <1>2, <3>1, <3>2, HeldHas DEF Creating
  <2> QED
    BY <1>0, <2>1, <2>3
<1>3. CASE Removing(k, l, h)
  <2>1. \A o \in NodeNum : Live(l, o) => Kin(k, l, o)
    BY <1>3 DEF Removing, Unlinks
  <2>2. Live(l, n) /\ Live(l, m)
    BY HeldLive
  <2> QED
    BY <1>0, <2>1, <2>2
<1>4. CASE Renaming(k, l, h)
  <2>1. PICK c : c = Leads(k, h.name)
    OBVIOUS
  <2>2. /\ \A o \in NodeNum \ {c} : Kin(k, l, o)
        /\ Holds(l, 0, c, h.new_name) /\ l.node[c].state = k.node[c].state
    BY <1>4, <2>1 DEF Renaming, Links
  <2>3. c \in NodeNum \ {0} /\ Holds(k, 0, c, h.name)
    BY <1>4, <2>1, LeadsTo DEF Renaming
  <2>4. ASSUME NEW o \in NodeNum \ {c}, Holds(l, 0, o, x), Holds(l, 0, c, x)
        PROVE  l.node[o].state = l.node[c].state
    <3>1. h.new_name = x
      BY <2>2, <2>3, <2>4, OneName
    <3>2. Holds(k, 0, o, x) /\ Kin(k, l, o)
      BY <2>2, <2>4, NamesBefore
    <3>3. k.node[c].state = k.node[o].state
      BY <1>4, <2>3, <3>1, <3>2 DEF Ready, Renaming
    <3> QED
      BY <2>2, <3>2, <3>3 DEF Kin
  <2> QED
    BY <1>0, <2>2, <2>4
<1> QED
  BY <1>1, <1>2, <1>3, <1>4 DEF Executing

\* What the kernel has seen before the call g still holds.
LEMMA ReadyStays ==
    ASSUME NEW k, NEW l, Inv(k, {}), Inv(l, {}), NEW h, Executing(k, l, h),
           NEW g, Ready(k, g), ~Clash(h, g)
    PROVE  Ready(l, g)
<1>1. ASSUME g.handler = "open"
      PROVE  FileNamed(l, g.name)
  <2>1. PICK n \in NodeNum : Holds(k, 0, n, g.name) /\ k.node[n].state = 1
    BY <1>1 DEF Ready, FileNamed
  <2>2. g.name \in Name
    BY <2>1, HeldLive
  <2>3. Takes(h) => h.name # g.name
    <3>1. g.name # Junk
      BY <2>2, TreeAssumption
    <3> QED
      BY <3>1 DEF Clash, Uses
  <2>4. Holds(l, 0, n, g.name) /\ l.node[n].state = 1
    <3>1. Holds(k, 0, n, g.name) /\ (Takes(h) /\ Has(k, h.name) => h.name # g.name)
      BY <2>1, <2>3
    <3>2. Holds(l, 0, n, g.name) /\ l.node[n].state = k.node[n].state
      BY <3>1, NamesStay
    <3> QED
      BY <2>1, <3>2
  <2> QED
    BY <2>4 DEF FileNamed
<1>2. ASSUME g.handler \in {"create", "rename"}
      PROVE  KinAll(k, l)
  <2>1. ~ChangesDir(h)
    BY <1>2 DEF Clash, ChangesDir
  <2> QED
    BY <2>1 DEF Executing, Creating, Removing, Renaming, ChangesDir
<1>3. ASSUME g.handler = "create"
      PROVE  ~Has(l, g.name)
  <2>1. SUFFICES ASSUME Has(l, g.name) PROVE FALSE
    OBVIOUS
  <2>2. PICK n \in NodeNum : Holds(l, 0, n, g.name)
    BY <2>1, LeadsTo
  <2>3. Holds(k, 0, n, g.name)
    BY <1>2, <1>3, <2>2, NamesBefore DEF KinAll
  <2> QED
    BY <1>3, <2>3, HeldHas DEF Ready
<1>4. ASSUME g.handler = "rename"
      PROVE  /\ Has(l, g.name)
             /\ \A n, m \in NodeNum : Holds(l, 0, n, g.name) /\ Holds(l, 0, m, g.new_name)
                                        => l.node[n].state = l.node[m].state
  <2>1. KinAll(k, l) /\ Has(k, g.name)
    BY <1>2, <1>4 DEF Ready
  <2>2. PICK c \in NodeNum : Holds(k, 0, c, g.name)
    BY <2>1, LeadsTo
  <2>3. Has(l, g.name)
    <3>1. g.name \in Name
      BY <2>2, HeldLive
    <3>2. Holds(l, 0, c, g.name)
      BY <2>1, <2>2, <3>1, Regions DEF KinAll, Kin, KeepsName
    <3> QED
      BY <3>2, HeldHas
  <2>4. ASSUME NEW n \in NodeNum, NEW m \in NodeNum,
               Holds(l, 0, n, g.name), Holds(l, 0, m, g.new_name)
        PROVE  l.node[n].state = l.node[m].state
    <3>1. Holds(k, 0, n, g.name) /\ Holds(k, 0, m, g.new_name)
      BY <2>1, <2>4, NamesBefore DEF KinAll
    <3>2. k.node[n].state = k.node[m].state
      BY <1>4, <3>1 DEF Ready
    <3> QED
      BY <2>1, <3>2 DEF KinAll, Kin
  <2> QED
    BY <2>3, <2>4
<1> QED
  BY <1>1, <1>3, <1>4 DEF Ready

\* The file an unlink is about to remove is still not the open one.
LEMMA UnopenedStays ==
    ASSUME NEW k, NEW l, Inv(k, {}), Inv(l, {}), NEW h, Executing(k, l, h),
           NEW g, ~Clash(h, g), NEW f, Unopened(k, g, f)
    PROVE  Unopened(l, g, f)
<1> SUFFICES ASSUME g.handler = "unlink", f # NoHandle, Has(l, g.name)
             PROVE  Leads(l, g.name) # f.fd
  BY DEF Unopened
<1>1. SameDirs(k, l) /\ IsDir(k, 0)
  <2>1. ~ChangesDir(h)
    BY DEF Clash, ChangesDir
  <2>2. IsDir(k, 0)
    BY DEF Inv, RootLive, IsDir
  <2> QED
    BY <2>1, <2>2 DEF Executing, Creating, Removing, Renaming, ChangesDir
<1>2. SameEntries(k, l, 0)
  BY <1>1, Regions DEF SameDirs
<1>3. Matches(l, l.node[0], g.name) = Matches(k, k.node[0], g.name)
  BY <1>2 DEF SameEntries, Matches, Entry
<1>4. Has(k, g.name)
  BY <1>3 DEF Has, exists_entry
<1>5. Leads(l, g.name) = Leads(k, g.name)
  <2>1. PICK i : i = Least(Matches(k, k.node[0], g.name))
    OBVIOUS
  <2>2. PICK c : c = get_entry(k, k.node[0], g.name).node_num
    OBVIOUS
  <2>3. i \in Places(k.node[0])
    BY <1>1, <1>4, <2>1, <2>2, GetEntry, Regions DEF Has
  <2>4. Entry(l, 0, i) = Entry(k, 0, i)
    BY <1>2, <2>3 DEF SameEntries
  <2> QED
    BY <1>3, <2>1, <2>4 DEF Leads, get_entry, Entry
<1> QED
  BY <1>4, <1>5 DEF Unopened

\* The lives of the nodes after a step from k to l.
Born(k, l, g) ==
    [n \in NodeNum |-> IF Live(l, n) /\ ~Live(k, n) THEN g[n] + 1 ELSE g[n]]

\* An open file that the call does not remove stays as it is.
LEMMA OpenStays ==
    ASSUME NEW k, NEW l, Inv(k, {}), NEW h, Executing(k, l, h),
           NEW g, NEW n, NEW b, IsOpen(k, g, n, b),
           h.handler = "unlink" /\ Has(k, h.name) => Leads(k, h.name) # n
    PROVE  IsOpen(l, Born(k, l, g), n, b)
<1>1. n \in NodeNum \ {0} /\ Live(k, n) /\ k.node[n].state = 1 /\ g[n] = b
  BY DEF IsOpen
<1>2. Live(l, n) /\ l.node[n].state = 1
  <2>1. CASE Renaming(k, l, h) /\ n = Leads(k, h.name)
    BY <1>1, <2>1 DEF Renaming, Links
  <2>2. CASE ~(Renaming(k, l, h) /\ n = Leads(k, h.name))
    <3>1. Kin(k, l, n)
      BY <1>1, <2>2 DEF Executing, KinAll, Creating, Links, Removing, Unlinks, Renaming
    <3> QED
      BY <1>1, <3>1 DEF Kin
  <2> QED
    BY <2>1, <2>2
<1>3. Born(k, l, g)[n] = g[n]
  BY <1>1 DEF Born
<1> QED
  BY <1>1, <1>2, <1>3 DEF IsOpen

-----------------------------------------------------------------------------
(***************************************************************************)
(* What the server executes (fs_sac.c): every request leaves the disk as   *)
(* its call may.                                                           *)
(***************************************************************************)
\* The server finds the end of a path it was sent.
LEMMA PathEnds ==
    ASSUME NEW n \in Name
    PROVE  CString(Path(n) \o <<0>>) = Path(n)
<1>1. Spelling[n] \in Seq(Byte) /\ \A i \in 1 .. Len(Spelling[n]) : Spelling[n][i] # 0
  <2>1. Spelling[n] \in Seq(Byte \ {0, 47})
    BY CallsAssumption
  <2> QED
    BY <2>1
<1>2. Path(n) \in Seq(Byte) /\ \A i \in 1 .. Len(Path(n)) : Path(n)[i] # 0
  <2> DEFINE s == Spelling[n]
  <2>1. s \in Seq(Byte) /\ \A i \in 1 .. Len(s) : s[i] # 0
    BY <1>1
  <2> HIDE DEF s
  <2>2. <<47>> \o s \in Seq(Byte) /\ \A i \in 1 .. Len(<<47>> \o s) : (<<47>> \o s)[i] # 0
    BY <2>1 DEF Byte
  <2> QED
    BY <2>2 DEF Path, s
<1> QED
  BY <1>2, StringEnds

\* The server finds the name in the path it was sent.
LEMMA NamedIs ==
    ASSUME NEW n \in Name
    PROVE  Named(Path(n) \o <<0>>) = n
<1>1. \A m \in Name : Spelling[m] \in Seq(Byte)
  BY CallsAssumption
<1>2. CString(Path(n) \o <<0>>) = Path(n)
  BY PathEnds
<1>3. ASSUME NEW m \in Name, Path(m) = Path(n)
      PROVE  m = n
  <2>1. Spelling[m] = Spelling[n]
    <3> DEFINE s == Spelling[m]
               t == Spelling[n]
    <3>1. s \in Seq(Byte) /\ t \in Seq(Byte)
      BY <1>1
    <3>2. <<47>> \o s = <<47>> \o t
      BY <1>3 DEF Path
    <3> HIDE DEF s, t
    <3>3. Len(s) = Len(t)
      <4>1. Len(<<47>> \o s) = 1 + Len(s) /\ Len(<<47>> \o t) = 1 + Len(t)
        BY <3>1
      <4> QED
        BY <3>1, <3>2, <4>1
    <3>4. ASSUME NEW i \in 1 .. Len(s)
          PROVE  s[i] = t[i]
      <4>1. (<<47>> \o s)[i + 1] = s[i] /\ (<<47>> \o t)[i + 1] = t[i]
        BY <3>1, <3>3
      <4> QED
        BY <3>2, <4>1
    <3>5. s = t
      BY <3>1, <3>3, <3>4
    <3> QED
      BY <3>5 DEF s, t
  <2> QED
    BY <2>1, CallsAssumption
<1>4. PICK spelled : spelled = {m \in Name : Path(m) = CString(Path(n) \o <<0>>)}
  OBVIOUS
<1>5. spelled = {n}
  BY <1>2, <1>3, <1>4
<1>6. Named(Path(n) \o <<0>>) = CHOOSE m \in spelled : TRUE
  BY <1>4, <1>5 DEF Named
<1> QED
  BY <1>5, <1>6

\* The disk k is left consistent, and as the call h may leave it.
Leaves(k, h) == Outcome(k) /\ (k.server = "up" => Executing(fs, k, h))

\* A request that changes nothing.
LEMMA NothingDone ==
    ASSUME Up, Inv(fs, {}), NEW h
    PROVE  Leaves(fs, h)
<1>1. PICK k : k = fs
  OBVIOUS
<1>2. Inv(k, {}) /\ k.server = "up"
  BY <1>1 DEF Up, fs
<1>3. Outcome(k)
  BY <1>2, Completes
<1>4. KinAll(k, k) /\ SameDirs(k, k)
  BY DEF KinAll, Kin, KeepsName, SameDirs, SameEntries
<1> QED
  BY <1>1, <1>3, <1>4 DEF Leaves, Executing

\* What the requests find in the root.
LEMMA RootHas ==
    ASSUME NEW x
    PROVE  /\ Found(0, x) <=> Has(fs, x)
           /\ Child(0, x) = Leads(fs, x)
           /\ node = fs.node /\ bitmap = fs.bitmap /\ block = fs.block
           /\ server = fs.server
BY DEF Found, Has, Child, Leads, fs

\* The root is a directory of every consistent disk.
LEMMA RootIsDir ==
    ASSUME NEW k, Inv(k, {})
    PROVE  0 \in NodeNum /\ IsDir(k, 0)
BY Regions DEF Inv, RootLive, IsDir

\* sac_open.
LEMMA OpenLeaves ==
    ASSUME Up, Inv(fs, {}), SameKind(fs), NEW h, Opens(h), h.name \in Name, Ready(fs, h),
           NEW done, done = _sac_open(Path(h.name) \o << 0 >>)
    PROVE  /\ Leaves(done.k, h)
           /\ \E n \in NodeNum :
                 /\ done.answer = create_default_package(n)
                 /\ done.k.server = "up" =>
                       /\ Holds(done.k, 0, n, h.name)
                       /\ IsOpen(done.k, Born(fs, done.k, birth), n, Born(fs, done.k, birth)[n])
<1>1. PICK x \in Name : x = h.name
  OBVIOUS
<1>2. Named(Path(x) \o <<0>>) = x
  BY NamedIs
<1>3. PICK k : k = fs
  OBVIOUS
<1>4. Inv(k, {}) /\ k.server = "up" /\ SameKind(k) /\ Ready(k, h)
  BY <1>3 DEF Up, fs
<1>5. CASE h.handler = "open"
  <2>1. PICK m \in NodeNum : Holds(k, 0, m, x) /\ k.node[m].state = 1
    BY <1>1, <1>4, <1>5 DEF Ready, FileNamed
  <2>2. Has(k, x)
    BY <2>1, HeldHas
  <2>3. PICK n : n = Leads(k, x)
    OBVIOUS
  <2>4. n \in NodeNum \ {0} /\ Live(k, n) /\ Holds(k, 0, n, x)
    BY <1>4, <2>2, <2>3, LeadsTo
  <2>5. k.node[n].state = 1
    BY <1>4, <2>1, <2>4 DEF SameKind
  <2>6. done = Done(k, n)
    BY <1>1, <1>2, <1>3, <2>2, <2>3, RootHas DEF _sac_open
  <2>7. done.k = k /\ done.answer = create_default_package(n)
    BY <2>6 DEF Done
  <2>8. Leaves(k, h)
    BY <1>3, NothingDone
  <2> QED
    BY <1>1, <2>4, <2>5, <2>7, <2>8 DEF IsOpen
<1>6. CASE h.handler = "create"
  <2>1. ~Has(k, x)
    BY <1>1, <1>4, <1>6 DEF Ready
  <2>2. PICK l : l = CreateNode(k, 0, x, 1)
    OBVIOUS
  <2>3. /\ Outcome(l)
        /\ l.server = "up" => \E c \in NodeNum \ {0} :
              /\ c = get_free_node_block(k.bitmap) - NODE_TABLE_INITIAL_BLOCK
              /\ ~Live(k, c) /\ l.node[c].state = 1 /\ Links(k, l, c, 0, x)
    BY <1>4, <2>2, RootIsDir, CreateKeepsInv
  <2>4. done = IF l.server # "up" THEN Done(l, 0)
               ELSE Done(l, get_free_node_block(k.bitmap) - NODE_TABLE_INITIAL_BLOCK)
    BY <1>1, <1>2, <1>3, <2>1, <2>2, RootHas DEF _sac_open
  <2>5. CASE l.server # "up"
    <3>1. done.k = l /\ done.answer = create_default_package(0)
      BY <2>4, <2>5 DEF Done
    <3> QED
      BY <2>3, <2>5, <3>1, Regions DEF Leaves
  <2>6. CASE l.server = "up"
    <3>1. PICK c \in NodeNum \ {0} :
              /\ c = get_free_node_block(k.bitmap) - NODE_TABLE_INITIAL_BLOCK
              /\ ~Live(k, c) /\ l.node[c].state = 1 /\ Links(k, l, c, 0, x)
      BY <2>3, <2>6
    <3>2. done.k = l /\ done.answer = create_default_package(c)
      BY <2>4, <2>6, <3>1 DEF Done
    <3>3. Creating(k, l, h, c)
      BY <1>1, <1>6, <2>1, <3>1 DEF Creating
    <3>4. Leaves(l, h)
      BY <1>3, <2>3, <3>3 DEF Leaves, Executing
    <3>5. Holds(l, 0, c, x) /\ Live(l, c) /\ l.node[c].state = 1
      BY <3>1 DEF Links
    <3> QED
      BY <1>1, <3>1, <3>2, <3>4, <3>5 DEF IsOpen
  <2> QED
    BY <2>5, <2>6
<1> QED
  BY <1>5, <1>6 DEF Opens

\* sac_mkdir.
LEMMA MkdirLeaves ==
    ASSUME Up, Inv(fs, {}), NEW h, h.handler = "mkdir", h.name \in Name,
           NEW done, done = _sac_mkdir(Path(h.name) \o << 0 >>)
    PROVE  Leaves(done.k, h)
<1>1. PICK x \in Name : x = h.name
  OBVIOUS
<1>2. Named(Path(x) \o <<0>>) = x
  BY NamedIs
<1>3. PICK k : k = fs
  OBVIOUS
<1>4. Inv(k, {}) /\ k.server = "up"
  BY <1>3 DEF Up, fs
<1>5. CASE Has(k, x)
  <2>1. done.k = k
    BY <1>1, <1>2, <1>3, <1>5, RootHas DEF _sac_mkdir, Done
  <2> QED
    BY <1>3, <2>1, NothingDone
<1>6. CASE ~Has(k, x)
  <2>1. PICK l : l = CreateNode(k, 0, x, 2)
    OBVIOUS
  <2>2. done.k = l
    BY <1>1, <1>2, <1>3, <1>6, <2>1, RootHas DEF _sac_mkdir, Done
  <2>3. /\ Outcome(l)
        /\ l.server = "up" => \E c \in NodeNum \ {0} : ~Live(k, c) /\ Links(k, l, c, 0, x)
    BY <1>4, <2>1, RootIsDir, CreateKeepsInv
  <2>4. l.server = "up" => \E c \in NodeNum : Creating(k, l, h, c)
    BY <1>1, <1>6, <2>3 DEF Creating
  <2> QED
    BY <1>3, <2>2, <2>3, <2>4 DEF Leaves, Executing
<1> QED
  BY <1>5, <1>6

\* sac_remove.
LEMMA UnlinkLeaves ==
    ASSUME Up, Inv(fs, {}), NEW h, h.handler = "unlink", h.name \in Name,
           NEW done, done = _sac_remove(Path(h.name) \o << 0 >>)
    PROVE  Leaves(done.k, h)
<1>1. PICK x \in Name : x = h.name
  OBVIOUS
<1>2. Named(Path(x) \o <<0>>) = x
  BY NamedIs
<1>3. PICK k : k = fs
  OBVIOUS
<1>4. Inv(k, {}) /\ k.server = "up"
  BY <1>3 DEF Up, fs
<1>5. PICK c : c = Leads(k, x)
  OBVIOUS
<1>6. CASE Has(k, x) /\ k.node[c].state = 1
  <2>1. PICK l : l = RemoveFile(k, c, x)
    OBVIOUS
  <2>2. done.k = l
    BY <1>1, <1>2, <1>3, <1>5, <1>6, <2>1, RootHas DEF _sac_remove, IsFile, Done
  <2>3. Outcome(l) /\ Unlinks(k, l, c)
    BY <1>4, <1>5, <1>6, <2>1, RootIsDir, RemoveFileKeepsInv DEF Leads, Has
  <2>4. Removing(k, l, h)
    BY <1>1, <1>5, <1>6, <2>3 DEF Removing
  <2> QED
    BY <1>3, <2>2, <2>3, <2>4 DEF Leaves, Executing
<1>7. CASE ~(Has(k, x) /\ k.node[c].state = 1)
  <2>1. done.k = k
    BY <1>1, <1>2, <1>3, <1>5, <1>7, RootHas DEF _sac_remove, IsFile, Done
  <2> QED
    BY <1>3, <2>1, NothingDone
<1> QED
  BY <1>6, <1>7

\* sac_rmdir.
LEMMA RmdirLeaves ==
    ASSUME Up, Inv(fs, {}), NEW h, h.handler = "rmdir", h.name \in Name,
           NEW done, done = _sac_rmdir(Path(h.name) \o << 0 >>)
    PROVE  Leaves(done.k, h)
<1>1. PICK x \in Name : x = h.name
  OBVIOUS
<1>2. Named(Path(x) \o <<0>>) = x
  BY NamedIs
<1>3. PICK k : k = fs
  OBVIOUS
<1>4. Inv(k, {}) /\ k.server = "up" /\ k \in Disk
  BY <1>3 DEF Up, fs, Inv
<1>5. PICK c : c = Leads(k, x)
  OBVIOUS
<1>6. CASE Has(k, x) /\ k.node[c].state = 2 /\ ~(k.node[c].file_size > 0)
  <2>1. PICK l : l = RemoveDir(k, c, x)
    OBVIOUS
  <2>2. done.k = l
    BY <1>1, <1>2, <1>3, <1>5, <1>6, <2>1, RootHas DEF _sac_rmdir, IsDirectory, Done
  <2>3. k.node[c].file_size = 0
    <3>1. c \in NodeNum
      BY <1>4, <1>5, <1>6, LeadsTo
    <3>2. k.node[c].file_size \in Nat
      BY <1>4, <3>1 DEF Disk, t_node
    <3> QED
      BY <1>6, <3>2
  <2>4. Outcome(l) /\ Unlinks(k, l, c)
    BY <1>4, <1>5, <1>6, <2>1, <2>3, RootIsDir, RemoveDirKeepsInv DEF Leads, Has
  <2>5. Removing(k, l, h)
    BY <1>1, <1>5, <1>6, <2>4 DEF Removing
  <2> QED
    BY <1>3, <2>2, <2>4, <2>5 DEF Leaves, Executing
<1>7. CASE ~(Has(k, x) /\ k.node[c].state = 2 /\ ~(k.node[c].file_size > 0))
  <2>1. done.k = k
    BY <1>1, <1>2, <1>3, <1>5, <1>7, RootHas DEF _sac_rmdir, IsDirectory, Done
  <2> QED
    BY <1>3, <2>1, NothingDone
<1> QED
  BY <1>6, <1>7

\* sac_rename of a name that is there.
LEMMA RenameLeaves ==
    ASSUME Up, Inv(fs, {}), NEW h, h.handler = "rename", h.name \in Name, h.new_name \in Name,
           Ready(fs, h),
           NEW done, done = _sac_rename(Path(h.name) \o << 0 >>, Path(h.new_name) \o << 0 >>)
    PROVE  Leaves(done.k, h)
<1>1. PICK x \in Name, y \in Name : x = h.name /\ y = h.new_name
  OBVIOUS
<1>2. Named(Path(x) \o <<0>>) = x /\ Named(Path(y) \o <<0>>) = y
  BY NamedIs
<1>3. PICK k : k = fs
  OBVIOUS
<1>4. Inv(k, {}) /\ k.server = "up" /\ Has(k, x)
  BY <1>1, <1>3 DEF Up, fs, Ready
<1>5. PICK c : c = Leads(k, x)
  OBVIOUS
<1>6. PICK l : l = MoveEntry(k, 0, x, 0, y)
  OBVIOUS
<1>7. done.k = l
  BY <1>1, <1>2, <1>3, <1>4, <1>6, RootHas DEF _sac_rename, Done
<1>8. c # 0
  BY <1>4, <1>5, LeadsTo
<1>9. /\ Outcome(l)
      /\ l.server = "up" => Links(k, l, c, 0, y) /\ l.node[c].state = k.node[c].state
  BY <1>4, <1>5, <1>6, <1>8, RootIsDir, MoveKeepsInv DEF Leads, Has
<1>10. l.server = "up" => Renaming(k, l, h)
  BY <1>1, <1>4, <1>5, <1>9 DEF Renaming
<1> QED
  BY <1>3, <1>7, <1>9, <1>10 DEF Leaves, Executing

\* sac_truncate.
LEMMA TruncateLeaves ==
    ASSUME Up, Inv(fs, {}), NEW h, h.name \in Name, h.size \in FileSize \cup {0},
           NEW done, done = _sac_truncate(Path(h.name) \o << 0 >>, h.size)
    PROVE  Leaves(done.k, h)
<1>1. PICK x \in Name : x = h.name
  OBVIOUS
<1>2. Named(Path(x) \o <<0>>) = x
  BY NamedIs
<1>3. PICK k : k = fs
  OBVIOUS
<1>4. Inv(k, {}) /\ k.server = "up"
  BY <1>3 DEF Up, fs
<1>5. PICK c : c = Leads(k, x)
  OBVIOUS
<1>6. CASE Has(k, x) /\ k.node[c].state = 1
  <2>1. PICK l : l = TruncateFile(k, c, h.size)
    OBVIOUS
  <2>2. ~(h.size < 0)
    <3>1. \A z \in FileSize \cup {0} : ~(z < 0)
      BY TreeAssumption, LayoutAssumption
    <3> QED
      BY <3>1
  <2>3. done.k = l
    BY <1>1, <1>2, <1>3, <1>5, <1>6, <2>1, <2>2, RootHas DEF _sac_truncate, IsFile, Done
  <2>4. c \in NodeNum /\ Live(k, c)
    BY <1>4, <1>5, <1>6, LeadsTo
  <2>5. Outcome(l) /\ (l.server = "up" => KinAll(k, l) /\ SameDirs(k, l))
    BY <1>4, <1>6, <2>1, <2>4, TruncateKeepsInv
  <2> QED
    BY <1>3, <2>3, <2>5 DEF Leaves, Executing
<1>7. CASE ~(Has(k, x) /\ k.node[c].state = 1)
  <2>1. done.k = k
    BY <1>1, <1>2, <1>3, <1>5, <1>7, RootHas DEF _sac_truncate, IsFile, Done
  <2> QED
    BY <1>3, <2>1, NothingDone
<1> QED
  BY <1>6, <1>7

\* Other bytes in the data block of a file that has grown.
LEMMA Regrown ==
    ASSUME NEW k, Inv(k, {}),
           NEW c \in NodeNum, Live(k, c), ~NoRoom(k, k.node[c]),
           NEW s \in 1 .. DIR_ENTRIES, NEW r \in [Slot -> t_dir_entry],
           NEW l, l = Grown(k, c, s, r),
           NEW t
    PROVE  /\ [l EXCEPT !.block[Dat(l, c)] = t] = Grown(k, c, s, t)
           /\ l.server = k.server
           /\ Dat(l, c) \in DataBlock
           /\ l.block[Dat(l, c)] = r
<1>1. k \in Disk /\ RootLive(k) /\ NodesOK(k) /\ BlocksApart(k)
  BY DEF Inv
<1>2. PICK a : a = FirstBlocks(k, k.node[c])
  OBVIOUS
<1>3. a.data \in DataBlock /\ a.block \in [DataBlock -> [Slot -> t_dir_entry]]
  BY <1>1, <1>2, FirstBlocksFresh DEF Fresh
<1>4. /\ Dat(l, c) = a.data /\ l.server = k.server /\ l.block[Dat(l, c)] = r
  <2>1. Grows(k, c, s, r, l)
    BY <1>1, Grow
  <2> QED
    BY <1>2, <2>1 DEF Grows
<1>5. PICK nd : nd = [k.node[c] EXCEPT !.file_size = s, !.indirect_pointer_block = a.pointers]
  OBVIOUS
<1>6. ASSUME NEW u
      PROVE  Grown(k, c, s, u) =
               [bitmap |-> a.bitmap, block |-> [a.block EXCEPT ![a.data] = u],
                node |-> [k.node EXCEPT ![c] = nd], server |-> k.server]
  <2>1. PICK b : b = [a.block EXCEPT ![a.data] = u]
    OBVIOUS
  <2>2. PICK m : m = [k.node EXCEPT ![c] = nd]
    OBVIOUS
  <2>3. Grown(k, c, s, u) = [k EXCEPT !.bitmap = a.bitmap, !.block = b, !.node[c] = nd]
    BY <1>2, <1>5, <2>1 DEF Grown
  <2>4. Grown(k, c, s, u) = [k EXCEPT !.bitmap = a.bitmap, !.block = b, !.node = m]
    BY <1>1, <2>2, <2>3 DEF Disk
  <2>5. k \in [bitmap : {k.bitmap}, node : {k.node}, block : {k.block}, server : {k.server}]
    BY <1>1 DEF Disk
  <2>6. PICK g : g = Grown(k, c, s, u)
    OBVIOUS
  <2>7. g \in [bitmap : {a.bitmap}, node : {m}, block : {b}, server : {k.server}]
    BY <2>4, <2>5, <2>6
  <2>8. g = [bitmap |-> a.bitmap, block |-> b, node |-> m, server |-> k.server]
    BY <2>7
  <2> QED
    BY <2>1, <2>2, <2>6, <2>8
<1>7. l = [bitmap |-> a.bitmap, block |-> [a.block EXCEPT ![a.data] = r],
           node |-> [k.node EXCEPT ![c] = nd], server |-> k.server]
  BY <1>6
<1>8. [[a.block EXCEPT ![a.data] = r] EXCEPT ![a.data] = t] = [a.block EXCEPT ![a.data] = t]
  BY <1>3
<1>9. [l EXCEPT !.block[a.data] = t] =
         [bitmap |-> a.bitmap, block |-> [[a.block EXCEPT ![a.data] = r] EXCEPT ![a.data] = t],
          node |-> [k.node EXCEPT ![c] = nd], server |-> k.server]
  BY <1>7
<1> QED
  BY <1>3, <1>4, <1>6, <1>8, <1>9

\* sac_write.
LEMMA WriteLeaves ==
    ASSUME Up, Inv(fs, {}), NEW h, NEW fd, IsOpen(fs, birth, fd, birth[fd]),
           NEW count, NEW offset, offset + count \in FileSize,
           NEW done, done = _sac_write(fd, count, offset)
    PROVE  Leaves(done.k, h)
<1>1. PICK k : k = fs
  OBVIOUS
<1>2. Inv(k, {}) /\ k.server = "up" /\ k \in Disk
  BY <1>1 DEF Up, fs, Inv
<1>3. fd \in NodeNum /\ Live(k, fd) /\ k.node[fd].state = 1
  BY <1>1 DEF IsOpen
<1>4. PICK end \in 1 .. DIR_ENTRIES : end = offset + count
  <2>1. PICK z : z = offset + count
    OBVIOUS
  <2>2. z \in FileSize
    BY <2>1
  <2>3. z \in 1 .. DIR_ENTRIES
    BY <2>2, TreeAssumption, LayoutAssumption
  <2> QED
    BY <2>1, <2>3
<1>5. PICK w : w = WriteFile(k, fd, end)
  OBVIOUS
<1>6. PICK q, kept : /\ q = DataOf(w, w.node[fd])
                     /\ kept = {j \in Slot : j < offset /\ j < k.node[fd].file_size}
  OBVIOUS
<1>7. done = IF w.server # "up" THEN Done(w, 0)
             ELSE Done([w EXCEPT !.block[q] =
                          [j \in Slot |-> IF j \in kept THEN k.block[q][j] ELSE @[j]]], count)
  BY <1>1, <1>3, <1>4, <1>5, <1>6, RootHas DEF _sac_write
<1>8. CASE NoRoom(k, k.node[fd])
  <2>1. w = Exit(k)
    BY <1>5, <1>8 DEF WriteFile
  <2>2. Outcome(w) /\ w.server # "up"
    BY <1>2, <2>1, Exits
  <2>3. done.k = w
    BY <1>7, <2>2 DEF Done
  <2> QED
    BY <2>2, <2>3 DEF Leaves
<1>9. CASE ~NoRoom(k, k.node[fd])
  <2>1. PICK s \in 1 .. DIR_ENTRIES, r \in [Slot -> t_dir_entry] : w = Grown(k, fd, s, r)
    BY <1>2, <1>3, <1>5, <1>9, WriteGrows
  <2>2. PICK t : t = [j \in Slot |-> IF j \in kept THEN k.block[q][j] ELSE w.block[q][j]]
    OBVIOUS
  <2>3. q = Dat(w, fd)
    BY <1>6 DEF Dat
  <2>4. /\ [w EXCEPT !.block[q] = t] = Grown(k, fd, s, t)
        /\ w.server = "up" /\ q \in DataBlock /\ w.block[q] = r
    BY <1>2, <1>3, <1>9, <2>1, <2>3, Regrown
  <2>5. done.k = Grown(k, fd, s, t)
    BY <1>7, <2>2, <2>4 DEF Done
  <2>6. t \in [Slot -> t_dir_entry]
    <3>1. k.block[q] \in [Slot -> t_dir_entry]
      BY <1>2, <2>4 DEF Disk
    <3> QED
      BY <2>1, <2>2, <2>4, <3>1
  <2>7. PICK l : l = done.k
    OBVIOUS
  <2>8. Inv(l, {}) /\ l.server = k.server /\ KinAll(k, l) /\ SameDirs(k, l)
    BY <1>2, <1>3, <1>9, <2>5, <2>6, <2>7, GrownKeepsInv
  <2>9. Outcome(l)
    BY <1>2, <2>8, Completes
  <2> QED
    BY <1>1, <2>7, <2>8, <2>9 DEF Leaves, Executing
<1> QED
  BY <1>8, <1>9

\* g is the function, with its arguments, that the call h of the handle f
\* means.
Means(g, h, f) ==
    LET path(x) == Path(x) \o <<0>>
    IN  \/ Opens(h) /\ h.name \in Name /\ g.op = "open" /\ g.args[1] = path(h.name)
        \/ h.handler = "mkdir" /\ h.name \in Name /\ g.op = "mkdir" /\ g.args[1] = path(h.name)
        \/ h.handler = "unlink" /\ h.name \in Name /\ g.op = "remove" /\ g.args[1] = path(h.name)
        \/ h.handler = "rmdir" /\ h.name \in Name /\ g.op = "rmdir" /\ g.args[1] = path(h.name)
        \/ /\ h.handler = "rename" /\ h.name \in Name /\ h.new_name \in Name /\ g.op = "rename"
           /\ g.args[1] = path(h.name) /\ g.args[2] = path(h.new_name)
        \/ /\ h.handler = "truncate" /\ h.name \in Name /\ h.size \in FileSize \cup {0}
           /\ g.op = "truncate" /\ g.args[1] = path(h.name) /\ g.args[2] = h.size
        \/ /\ h.handler = "write" /\ f # NoHandle /\ h.offset + h.size \in FileSize
           /\ h.size \in 1 .. DIR_ENTRIES
           /\ g.op = "write" /\ g.args[1] = f.fd /\ g.args[3] = h.size /\ g.args[4] = h.offset
        \/ /\ h.handler = "read" /\ f # NoHandle /\ h.size \in FileSize /\ h.offset = 0
           /\ g.op = "read" /\ g.args[1] = f.fd /\ g.args[2] = h.size /\ g.args[3] = 0
        \/ h.handler = "getattr" /\ h.name \in Name /\ g.op = "stat" /\ g.args[1] = path(h.name)
        \/ h.handler = "readdir" /\ g.op = "readdir" /\ g.args[1] = RootPath \o <<0>>
        \/ h.handler = "release" /\ g.op = "close"

\* The server's function and arguments are the ones the call means.
LEMMA FunctionMeant ==
    ASSUME NEW h, NEW f, Made(h, f), NEW g,
           g.op = Request(h, f.fd).op,
           \A i \in DOMAIN Meant(Request(h, f.fd)) : g.args[i] = Meant(Request(h, f.fd))[i]
    PROVE  Means(g, h, f)
<1>1. PICK r : r = Request(h, f.fd)
  OBVIOUS
<1>2. g.op = r.op /\ \A i \in DOMAIN Meant(r) : g.args[i] = Meant(r)[i]
  BY <1>1
<1>3. CASE h.handler \in {"open", "create"} /\ h.name \in Name
  <2>1. r.op = "open" /\ r.data1 = Path(h.name)
    BY <1>1, <1>3 DEF Request, Send
  <2>2. PICK p : p = Path(h.name) \o <<0>>
    OBVIOUS
  <2>3. Meant(r) = <<p, r.int1>>
    BY <2>1, <2>2 DEF Meant
  <2>4. g.args[1] = p
    BY <1>2, <2>3
  <2> QED
    BY <1>2, <1>3, <2>1, <2>2, <2>4 DEF Means, Opens
<1>4. CASE h.handler = "mkdir" /\ h.name \in Name
  <2>1. r.op = "mkdir" /\ r.data1 = Path(h.name)
    BY <1>1, <1>4 DEF Request, Send
  <2>2. PICK p : p = Path(h.name) \o <<0>>
    OBVIOUS
  <2>3. Meant(r) = <<p, r.int1>>
    BY <2>1, <2>2 DEF Meant
  <2>4. g.args[1] = p
    BY <1>2, <2>3
  <2> QED
    BY <1>2, <1>4, <2>1, <2>2, <2>4 DEF Means
<1>5. CASE h.handler \in {"unlink", "rmdir"} /\ h.name \in Name
  <2>1. /\ r.op = IF h.handler = "unlink" THEN "remove" ELSE "rmdir"
        /\ r.data1 = Path(h.name)
    BY <1>1, <1>5 DEF Request, Send
  <2>2. PICK p : p = Path(h.name) \o <<0>>
    OBVIOUS
  <2>3. Meant(r) = <<p>>
    BY <1>5, <2>1, <2>2 DEF Meant
  <2>4. g.args[1] = p
    BY <1>2, <2>3
  <2> QED
    BY <1>2, <1>5, <2>1, <2>2, <2>4 DEF Means
<1>6. CASE h.handler = "rename" /\ h.name \in Name /\ h.new_name \in Name
  <2>1. r.op = "rename" /\ r.data1 = Path(h.name) /\ r.data2 = Path(h.new_name)
    BY <1>1, <1>6 DEF Request, Send
  <2>2. PICK p, q : p = Path(h.name) \o <<0>> /\ q = Path(h.new_name) \o <<0>>
    OBVIOUS
  <2>3. Meant(r) = <<p, q>>
    BY <2>1, <2>2 DEF Meant
  <2>4. g.args[1] = p /\ g.args[2] = q
    BY <1>2, <2>3
  <2> QED
    BY <1>2, <1>6, <2>1, <2>2, <2>4 DEF Means
<1>7. CASE h.handler = "truncate" /\ h.name \in Name /\ h.size \in FileSize \cup {0}
  <2>1. r.op = "truncate" /\ r.data1 = Path(h.name) /\ r.int1 = h.size
    BY <1>1, <1>7 DEF Request, Send
  <2>2. PICK p : p = Path(h.name) \o <<0>>
    OBVIOUS
  <2>3. Meant(r) = <<p, h.size>>
    BY <2>1, <2>2 DEF Meant
  <2>4. g.args[1] = p /\ g.args[2] = h.size
    BY <1>2, <2>3
  <2> QED
    BY <1>2, <1>7, <2>1, <2>2, <2>4 DEF Means
<1>8. CASE /\ h.handler = "write" /\ f # NoHandle /\ h.offset + h.size \in FileSize
           /\ h.size \in 1 .. DIR_ENTRIES
  <2>1. r.op = "write" /\ r.int1 = f.fd /\ r.int2 = h.size /\ r.int3 = h.offset
    BY <1>1, <1>8 DEF Request, Send
  <2>2. Meant(r) = <<f.fd, r.data1, h.size, h.offset>>
    BY <2>1 DEF Meant
  <2>3. g.args[1] = f.fd /\ g.args[3] = h.size /\ g.args[4] = h.offset
    BY <1>2, <2>2
  <2> QED
    BY <1>2, <1>8, <2>1, <2>3 DEF Means
<1>9. CASE h.handler = "read" /\ f # NoHandle /\ h.size \in FileSize /\ h.offset = 0
  <2>1. r.op = "read" /\ r.int1 = f.fd /\ r.int2 = h.size /\ r.int3 = 0
    BY <1>1, <1>9 DEF Request, Send
  <2>2. Meant(r) = <<f.fd, h.size, 0>>
    BY <2>1 DEF Meant
  <2>3. g.args[1] = f.fd /\ g.args[2] = h.size /\ g.args[3] = 0
    BY <1>2, <2>2
  <2> QED
    BY <1>2, <1>9, <2>1, <2>3 DEF Means
<1>10. CASE h.handler = "getattr" /\ h.name \in Name
  <2>1. r.op = "stat" /\ r.data1 = Path(h.name)
    BY <1>1, <1>10 DEF Request, Send
  <2>2. PICK p : p = Path(h.name) \o <<0>>
    OBVIOUS
  <2>3. Meant(r) = <<p>>
    BY <2>1, <2>2 DEF Meant
  <2>4. g.args[1] = p
    BY <1>2, <2>3
  <2> QED
    BY <1>2, <1>10, <2>1, <2>2, <2>4 DEF Means
<1>11. CASE h.handler = "readdir"
  <2>1. r.op = "readdir" /\ r.data1 = RootPath
    BY <1>1, <1>11 DEF Request, Send
  <2>2. PICK p : p = RootPath \o <<0>>
    OBVIOUS
  <2>3. Meant(r) = <<p>>
    BY <2>1, <2>2 DEF Meant
  <2>4. g.args[1] = p
    BY <1>2, <2>3
  <2> QED
    BY <1>2, <1>11, <2>1, <2>2, <2>4 DEF Means
<1>12. CASE h.handler = "release"
  <2>1. r.op = "close"
    BY <1>1, <1>12 DEF Request, Send
  <2> QED
    BY <1>2, <1>12, <2>1 DEF Means
<1> QED
  BY <1>3, <1>4, <1>5, <1>6, <1>7, <1>8, <1>9, <1>10, <1>11, <1>12 DEF Made

\* stat, readdir, close and read change nothing.
LEMMA LookingLeaves ==
    ASSUME Up, Inv(fs, {}), NEW h, NEW g, g.op \in {"stat", "readdir", "close", "read"}
    PROVE  Leaves(execute(g).k, h)
<1>1. CASE g.op = "stat"
  <2>1. execute(g) = _sac_stat(g.args[1])
    BY <1>1 DEF execute
  <2>2. execute(g).k = fs
    BY <2>1 DEF _sac_stat, Answered, Done
  <2> QED
    BY <2>2, NothingDone
<1>2. CASE g.op = "readdir"
  <2>1. execute(g) = _sac_readdir(g.args[1])
    BY <1>2 DEF execute
  <2>2. execute(g).k = fs
    BY <2>1 DEF _sac_readdir, Answered, Done
  <2> QED
    BY <2>2, NothingDone
<1>3. CASE g.op = "close"
  <2>1. execute(g) = _sac_close(g.args[1])
    BY <1>3 DEF execute
  <2>2. execute(g).k = fs
    BY <2>1 DEF _sac_close, Done
  <2> QED
    BY <2>2, NothingDone
<1>4. CASE g.op = "read"
  <2>1. execute(g) = _sac_read(g.args[1], g.args[2], g.args[3])
    BY <1>4 DEF execute
  <2>2. execute(g).k = fs
    BY <2>1 DEF _sac_read, Answered
  <2> QED
    BY <2>2, NothingDone
<1> QED
  BY <1>1, <1>2, <1>3, <1>4

\* Every request leaves a consistent disk, changed as its call may.
LEMMA ExecuteLeaves ==
    ASSUME Up, Inv(fs, {}), SameKind(fs), NEW h, Ready(fs, h),
           NEW f, f # NoHandle => IsOpen(fs, birth, f.fd, f.birth),
           NEW g, Means(g, h, f)
    PROVE  /\ Leaves(execute(g).k, h)
           /\ Opens(h) <=> g.op = "open"
           /\ Opens(h) => \E n \in NodeNum :
                 /\ execute(g).answer = create_default_package(n)
                 /\ execute(g).k.server = "up" =>
                       /\ Holds(execute(g).k, 0, n, h.name)
                       /\ IsOpen(execute(g).k, Born(fs, execute(g).k, birth), n,
                                 Born(fs, execute(g).k, birth)[n])
<1>1. Opens(h) <=> g.op = "open"
  BY DEF Means, Opens
<1>2. CASE Opens(h)
  <2>1. h.name \in Name /\ execute(g) = _sac_open(Path(h.name) \o <<0>>)
    BY <1>1, <1>2 DEF Means, execute, Opens
  <2>2. PICK done : done = _sac_open(Path(h.name) \o <<0>>)
    OBVIOUS
  <2>3. /\ Leaves(done.k, h)
        /\ \E n \in NodeNum :
              /\ done.answer = create_default_package(n)
              /\ done.k.server = "up" =>
                    /\ Holds(done.k, 0, n, h.name)
                    /\ IsOpen(done.k, Born(fs, done.k, birth), n, Born(fs, done.k, birth)[n])
    BY <1>2, <2>1, <2>2, OpenLeaves
  <2> QED
    BY <1>1, <1>2, <2>1, <2>2, <2>3
<1>3. CASE ~Opens(h)
  <2>1. CASE h.handler = "mkdir"
    <3>1. h.name \in Name /\ execute(g) = _sac_mkdir(Path(h.name) \o <<0>>)
      BY <2>1 DEF Means, execute, Opens
    <3> QED
      BY <1>1, <1>3, <2>1, <3>1, MkdirLeaves
  <2>2. CASE h.handler = "unlink"
    <3>1. h.name \in Name /\ execute(g) = _sac_remove(Path(h.name) \o <<0>>)
      BY <2>2 DEF Means, execute, Opens
    <3> QED
      BY <1>1, <1>3, <2>2, <3>1, UnlinkLeaves
  <2>3. CASE h.handler = "rmdir"
    <3>1. h.name \in Name /\ execute(g) = _sac_rmdir(Path(h.name) \o <<0>>)
      BY <2>3 DEF Means, execute, Opens
    <3> QED
      BY <1>1, <1>3, <2>3, <3>1, RmdirLeaves
  <2>4. CASE h.handler = "rename"
    <3>1. /\ h.name \in Name /\ h.new_name \in Name
          /\ execute(g) = _sac_rename(Path(h.name) \o <<0>>, Path(h.new_name) \o <<0>>)
      BY <2>4 DEF Means, execute, Opens
    <3> QED
      BY <1>1, <1>3, <2>4, <3>1, RenameLeaves
  <2>5. CASE h.handler = "truncate"
    <3>1. /\ h.name \in Name /\ h.size \in FileSize \cup {0}
          /\ execute(g) = _sac_truncate(Path(h.name) \o <<0>>, h.size)
      BY <2>5 DEF Means, execute, Opens
    <3> QED
      BY <1>1, <1>3, <3>1, TruncateLeaves
  <2>6. CASE h.handler = "write"
    <3>1. /\ f # NoHandle /\ h.offset + h.size \in FileSize
          /\ execute(g) = _sac_write(f.fd, h.size, h.offset)
      BY <2>6 DEF Means, execute, Opens
    <3>2. IsOpen(fs, birth, f.fd, birth[f.fd])
      BY <3>1 DEF IsOpen
    <3> QED
      BY <1>1, <1>3, <3>1, <3>2, WriteLeaves
  <2>7. CASE h.handler \in {"getattr", "readdir", "release", "read"}
    <3>1. g.op \in {"stat", "readdir", "close", "read"}
      BY <2>7 DEF Means, Opens
    <3> QED
      BY <1>1, <1>3, <3>1, LookingLeaves
  <2> QED
    BY <1>3, <2>1, <2>2, <2>3, <2>4, <2>5, <2>6, <2>7 DEF Means
<1> QED
  BY <1>2, <1>3

-----------------------------------------------------------------------------
(***************************************************************************)
(* Answers: what the handler makes of the package the server sends.        *)
(***************************************************************************)
\* Only the root is spelled like the root.
LEMMA RootSpelled ==
    /\ IsRoot(RootPath \o <<0>>)
    /\ \A n \in Name : ~IsRoot(Path(n) \o <<0>>)
<1>1. CString(RootPath \o <<0>>) = RootPath
  <2>1. RootPath \in Seq(Byte) /\ \A i \in 1 .. Len(RootPath) : RootPath[i] # 0
    BY DEF RootPath, Byte
  <2> QED
    BY <2>1, StringEnds
<1>2. ASSUME NEW n \in Name
      PROVE  CString(Path(n) \o <<0>>) # RootPath
  <2> DEFINE s == Spelling[n]
  <2>1. s \in Seq(Byte) /\ s # <<>>
    BY CallsAssumption
  <2>2. CString(Path(n) \o <<0>>) = <<47>> \o s
    BY PathEnds DEF Path
  <2> HIDE DEF s
  <2>3. Len(<<47>> \o s) # 1
    BY <2>1
  <2>4. Len(RootPath) = 1
    BY DEF RootPath
  <2> QED
    BY <2>2, <2>3, <2>4
<1> QED
  BY <1>1, <1>2 DEF IsRoot

\* The answer to the call h of the node fd is a package, and if the server
\* still runs the handler returns for it what it should.
Tells(done, h, fd) ==
    /\ Sound(done.answer)
    /\ done.k.server = "up" => Handled(h, done.answer) = Wanted(h, fd, done.k)

\* An answer that is only a number.
LEMMA NumberIs ==
    ASSUME NEW id, Identifier(id), NEW k, NEW done, done = Done(k, id)
    PROVE  Sound(done.answer) /\ done.answer.message_id = id /\ done.k = k
BY DefaultIs DEF Done, create_default_package

\* A node's number and a number of bytes are numbers.
LEMMA Numbers ==
    ASSUME WireFits
    PROVE  /\ Identifier(0) /\ Identifier(1) /\ Identifier(-1) /\ Identifier(-2)
           /\ \A n \in NodeNum : Identifier(n) /\ Short(n)
           /\ \A n \in 0 .. DIR_ENTRIES : Identifier(n) /\ Word(n)
<1>1. Identifier(0) /\ Identifier(1) /\ Identifier(-1) /\ Identifier(-2)
  BY DEF Identifier
<1>2. ASSUME NEW n \in NodeNum PROVE Identifier(n) /\ Short(n)
  <2>1. n \in Nat /\ n < NODE_TABLE_BLOCKS /\ NODE_TABLE_BLOCKS \in Nat
    BY LayoutAssumption DEF NodeNum
  <2>2. n < 256 * 256
    BY <2>1 DEF WireFits
  <2> QED
    BY <2>1, <2>2 DEF Identifier, Short
<1>3. ASSUME NEW n \in 0 .. DIR_ENTRIES PROVE Identifier(n) /\ Word(n)
  <2>1. n \in Nat /\ n <= DIR_ENTRIES /\ DIR_ENTRIES \in Nat
    BY LayoutAssumption
  <2>2. n < 256 * (256 * (256 * 128))
    BY <2>1 DEF WireFits, LowWord
  <2> QED
    BY <2>1, <2>2 DEF Identifier, Word
<1> QED
  BY <1>1, <1>2, <1>3

\* open and create.
LEMMA OpenTells ==
    ASSUME WireFits, NEW h, Opens(h), NEW fd, NEW n \in NodeNum,
           NEW done, done.answer = create_default_package(n)
    PROVE  Tells(done, h, fd)
<1>1. Sound(done.answer) /\ done.answer.message_id = n
  BY Numbers, DefaultIs DEF create_default_package
<1>2. ~(n < 0)
  BY DEF NodeNum
<1>3. Handled(h, done.answer) = Returns(0, NoStat, <<>>)
  BY <1>1, <1>2 DEF Handled, Opens
<1>4. Wanted(h, fd, done.k) = Returns(0, NoStat, <<>>)
  BY DEF Wanted, Opens
<1> QED
  BY <1>1, <1>3, <1>4 DEF Tells

\* mkdir.
LEMMA MkdirTells ==
    ASSUME WireFits, NEW h, h.handler = "mkdir", h.name \in Name, NEW fd,
           NEW done, done = _sac_mkdir(Path(h.name) \o << 0 >>)
    PROVE  Tells(done, h, fd)
<1>1. PICK id : id = IF Found(0, h.name) THEN -1 ELSE 0
  OBVIOUS
<1>2. PICK k : done = Done(k, id)
  BY <1>1, NamedIs DEF _sac_mkdir
<1>3. Sound(done.answer) /\ done.answer.message_id = id
  BY <1>1, <1>2, Numbers, NumberIs
<1>4. Handled(h, done.answer) = Returns(id, NoStat, <<>>)
  BY <1>3 DEF Handled
<1>5. Wanted(h, fd, done.k) = Returns(id, NoStat, <<>>)
  BY <1>1 DEF Wanted
<1> QED
  BY <1>3, <1>4, <1>5 DEF Tells

\* unlink and truncate.
LEMMA FileTells ==
    ASSUME WireFits, NEW h, h.name \in Name, NEW fd,
           NEW done,
           \/ h.handler = "unlink" /\ done = _sac_remove(Path(h.name) \o << 0 >>)
           \/ h.handler = "truncate" /\ done = _sac_truncate(Path(h.name) \o << 0 >>, h.size)
    PROVE  Tells(done, h, fd)
<1>1. PICK id : id = IF IsFile(h.name) THEN 0 ELSE -1
  OBVIOUS
<1>2. PICK k : done = Done(k, id)
  BY <1>1, NamedIs DEF _sac_remove, _sac_truncate
<1>3. Sound(done.answer) /\ done.answer.message_id = id
  BY <1>1, <1>2, Numbers, NumberIs
<1>4. Handled(h, done.answer) = Returns(id, NoStat, <<>>)
  BY <1>3 DEF Handled
<1>5. Wanted(h, fd, done.k) = Returns(id, NoStat, <<>>)
  BY <1>1 DEF Wanted
<1> QED
  BY <1>3, <1>4, <1>5 DEF Tells

\* No directory but the root has entries: everything lies in the root.
Shallow(k) == \A n \in NodeNum \ {0} : IsDir(k, n) => k.node[n].file_size = 0

\* rmdir.
LEMMA RmdirTells ==
    ASSUME WireFits, Up, Inv(fs, {}), NEW h, h.handler = "rmdir", h.name \in Name, NEW fd,
           NEW done, done = _sac_rmdir(Path(h.name) \o << 0 >>)
    PROVE  Sound(done.answer) /\ (Shallow(fs) => Tells(done, h, fd))
<1>1. PICK b : b = (IsDirectory(h.name) /\ node[Child(0, h.name)].file_size > 0)
  OBVIOUS
<1>2. PICK id : id = IF ~IsDirectory(h.name) THEN -1 ELSE IF b THEN -2 ELSE 0
  OBVIOUS
<1>3. PICK k : done = Done(k, id)
  BY <1>1, <1>2, NamedIs DEF _sac_rmdir
<1>4. Sound(done.answer) /\ done.answer.message_id = id
  BY <1>2, <1>3, Numbers, NumberIs
<1>5. ASSUME Shallow(fs) PROVE ~b
  <2> SUFFICES ASSUME IsDirectory(h.name) PROVE ~(node[Child(0, h.name)].file_size > 0)
    BY <1>1
  <2>1. PICK n : n = Leads(fs, h.name)
    OBVIOUS
  <2>2. Has(fs, h.name) /\ fs.node[n].state = 2 /\ Child(0, h.name) = n
    BY <2>1, RootHas DEF IsDirectory
  <2>3. n \in NodeNum \ {0} /\ Live(fs, n)
    BY <2>1, <2>2, LeadsTo
  <2>4. fs.node[n].file_size = 0
    BY <1>5, <2>2, <2>3 DEF Shallow, IsDir
  <2> QED
    BY <2>2, <2>4, RootHas
<1>6. ASSUME ~b PROVE Handled(h, done.answer) = Wanted(h, fd, done.k)
  <2>1. id # -2
    BY <1>2, <1>6
  <2>2. Handled(h, done.answer) = Returns(id, NoStat, <<>>)
    BY <1>4, <2>1 DEF Handled
  <2>3. Wanted(h, fd, done.k) = Returns(id, NoStat, <<>>)
    BY <1>2, <1>6 DEF Wanted
  <2> QED
    BY <2>2, <2>3
<1> QED
  BY <1>4, <1>5, <1>6 DEF Tells

\* rename.
LEMMA RenameTells ==
    ASSUME WireFits, NEW h, h.handler = "rename", h.name \in Name, h.new_name \in Name,
           Ready(fs, h), NEW fd,
           NEW done, done = _sac_rename(Path(h.name) \o << 0 >>, Path(h.new_name) \o << 0 >>)
    PROVE  Tells(done, h, fd)
<1>1. Found(0, h.name)
  BY RootHas DEF Ready
<1>2. PICK k : done = Done(k, 0)
  BY <1>1, NamedIs DEF _sac_rename
<1>3. Sound(done.answer) /\ done.answer.message_id = 0
  BY <1>2, Numbers, NumberIs
<1>4. Handled(h, done.answer) = Returns(0, NoStat, <<>>)
  BY <1>3 DEF Handled
<1>5. Wanted(h, fd, done.k) = Returns(0, NoStat, <<>>)
  BY DEF Wanted
<1> QED
  BY <1>3, <1>4, <1>5 DEF Tells

\* write.
LEMMA WriteTells ==
    ASSUME WireFits, Up, NEW h, h.handler = "write", h.size \in 1 .. DIR_ENTRIES,
           NEW fd \in NodeNum,
           NEW done, done = _sac_write(fd, h.size, h.offset)
    PROVE  Tells(done, h, fd)
<1>1. PICK k, id : /\ done = Done(k, id)
                   /\ id = h.size \/ (id = 0 /\ k.server # "up")
  BY DEF _sac_write
<1>2. h.size \in 0 .. DIR_ENTRIES
  BY LayoutAssumption
<1>3. Sound(done.answer) /\ done.answer.message_id = id /\ done.k = k
  BY <1>1, <1>2, Numbers, NumberIs
<1>4. Handled(h, done.answer) = Returns(id, NoStat, <<>>)
  BY <1>3 DEF Handled
<1>5. Wanted(h, fd, done.k) = Returns(h.size, NoStat, <<>>)
  BY DEF Wanted
<1> QED
  BY <1>1, <1>3, <1>4, <1>5 DEF Tells

\* close: release does not look at what it is told.
LEMMA CloseAnswers ==
    ASSUME WireFits, NEW fd, NEW done, done = _sac_close(fd)
    PROVE  Sound(done.answer)
<1>1. PICK id \in {0, 1} : done = Done(fs, id)
  BY DEF _sac_close
<1> QED
  BY <1>1, Numbers, NumberIs

\* The attributes of a live node fit the answer that has them.
LEMMA StatTells ==
    ASSUME WireFits, Inv(fs, {}), NEW n \in NodeNum, Live(fs, n)
    PROVE  /\ Sound(StatAnswer(StatOf(n)))
           /\ StatAnswer(StatOf(n)).message_id = 0
           /\ __fill_stat_from_buffer(StatAnswer(StatOf(n)).data) = StatOf(n)
<1>1. PICK k : k = fs
  OBVIOUS
<1>2. k \in Disk /\ NodeOK(k, n)
  BY <1>1 DEF Inv, NodesOK
<1>3. /\ k.node[n].state \in {1, 2}
      /\ k.node[n].file_size \in Nat /\ k.node[n].file_size <= DIR_ENTRIES
  BY <1>2 DEF NodeOK, Disk, t_node
<1>4. Short(n) /\ Word(k.node[n].file_size)
  <2>1. k.node[n].file_size \in 0 .. DIR_ENTRIES
    BY <1>3, LayoutAssumption
  <2> QED
    BY <2>1, Numbers
<1>5. PICK st : st = [state |-> k.node[n].state, ino |-> n, size |-> k.node[n].file_size]
  OBVIOUS
<1>6. StatOf(n) = st
  BY <1>1, <1>5, RootHas DEF StatOf
<1>7. Short(st.ino) /\ Word(st.size)
  BY <1>4, <1>5
<1>8. [state |-> IF st.state = 2 THEN 2 ELSE 1, ino |-> st.ino, size |-> st.size] = st
  BY <1>3, <1>5
<1> QED
  BY <1>6, <1>7, <1>8, StatAnswerIs

\* getattr.
LEMMA GetattrTells ==
    ASSUME WireFits, Up, Inv(fs, {}), NEW h, h.handler = "getattr", h.name \in Name, NEW fd,
           NEW done, done = _sac_stat(Path(h.name) \o << 0 >>)
    PROVE  Tells(done, h, fd)
<1>1. PICK x \in Name : x = h.name
  OBVIOUS
<1>2. Named(Path(x) \o <<0>>) = x /\ ~IsRoot(Path(x) \o <<0>>)
  BY NamedIs, RootSpelled
<1>3. CASE Found(0, x)
  <2>1. PICK n : n = Child(0, x)
    OBVIOUS
  <2>2. n \in NodeNum /\ Live(fs, n)
    BY <1>3, <2>1, RootHas, LeadsTo
  <2>3. node[n].state # 0
    <3>1. NodeOK(fs, n)
      BY <2>2 DEF Inv, NodesOK
    <3> QED
      BY <3>1, RootHas DEF NodeOK
  <2>4. done.answer = StatAnswer(StatOf(n))
    BY <1>1, <1>2, <1>3, <2>1, <2>3 DEF _sac_stat, Answered
  <2>5. PICK p : p = done.answer
    OBVIOUS
  <2>6. /\ Sound(p) /\ p.message_id = 0
        /\ __fill_stat_from_buffer(p.data) = StatOf(n)
    BY <2>2, <2>4, <2>5, StatTells
  <2>7. Handled(h, p) = Returns(0, StatOf(n), <<>>)
    BY <2>6 DEF Handled
  <2>8. Wanted(h, fd, done.k) = Returns(0, StatOf(n), <<>>)
    BY <1>1, <1>3, <2>1 DEF Wanted
  <2> QED
    BY <2>5, <2>6, <2>7, <2>8 DEF Tells
<1>4. CASE ~Found(0, x)
  <2>1. done = Done(fs, -1)
    BY <1>1, <1>2, <1>4 DEF _sac_stat
  <2>2. Sound(done.answer) /\ done.answer.message_id = -1
    BY <2>1, Numbers, NumberIs
  <2>3. Handled(h, done.answer) = Returns(-ENOENT, NoStat, <<>>)
    BY <2>2 DEF Handled
  <2>4. Wanted(h, fd, done.k) = Returns(-ENOENT, NoStat, <<>>)
    BY <1>1, <1>4 DEF Wanted
  <2> QED
    BY <2>2, <2>3, <2>4 DEF Tells
<1> QED
  BY <1>3, <1>4

\* read of a file that has a block: the bytes it has from the offset on.
LEMMA ReadTells ==
    ASSUME WireFits, Up, Inv(fs, {}), NEW h, h.handler = "read", h.size \in FileSize, h.offset = 0,
           NEW fd \in NodeNum, Live(fs, fd), node[fd].state = 1,
           NEW done, done = _sac_read(fd, h.size, 0)
    PROVE  Sound(done.answer) /\ (node[fd].indirect_pointer_block # 0 => Tells(done, h, fd))
<1>1. PICK s, n : s = node[fd].file_size /\ n = h.size
  OBVIOUS
<1>2. n \in 0 .. DIR_ENTRIES /\ s \in 0 .. DIR_ENTRIES
  <2>1. FileSize \subseteq 1 .. DIR_ENTRIES - 1 /\ DIR_ENTRIES \in Nat
    BY TreeAssumption, LayoutAssumption
  <2>2. NodeOK(fs, fd) /\ fs \in Disk
    BY DEF Inv, NodesOK
  <2>3. node[fd].file_size \in Nat /\ node[fd].file_size <= DIR_ENTRIES
    BY <2>2, RootHas DEF NodeOK, Disk, t_node
  <2>4. n \in 1 .. DIR_ENTRIES - 1
    BY <1>1, <2>1
  <2>5. s \in Nat /\ s <= DIR_ENTRIES
    BY <1>1, <2>3
  <2> QED
    BY <2>1, <2>4, <2>5
<1>3. PICK ptr : ptr = node[fd].indirect_pointer_block
  OBVIOUS
<1>4. PICK size : size = IF node[fd].state # 1 \/ ptr = 0 THEN n
                         ELSE IF s - 0 <= 0 THEN 0
                         ELSE IF n > s - 0 THEN s - 0 ELSE n
  OBVIOUS
<1>5. done = Answered([message_id |-> 0, size |-> size, data |-> Copy(<<>>, 0, size)])
  BY <1>1, <1>3, <1>4 DEF _sac_read
<1>6. size \in 0 .. DIR_ENTRIES
  BY <1>2, <1>4
<1>7. PICK p : p = [message_id |-> 0, size |-> size, data |-> Copy(<<>>, 0, size)]
  OBVIOUS
<1>8. Sound(p) /\ p.message_id = 0 /\ p.size = size /\ done.answer = p
  BY <1>5, <1>6, <1>7, Numbers, ReadAnswerIs DEF Answered
<1>9. Handled(h, p) = Returns(size, NoStat, <<>>)
  BY <1>8 DEF Handled
<1>10. PICK left : left = s - 0
  OBVIOUS
<1>11. Wanted(h, fd, done.k) =
          Returns(IF left <= 0 THEN 0 ELSE IF left < n THEN left ELSE n, NoStat, <<>>)
  BY <1>1, <1>10 DEF Wanted
<1>12. ptr # 0 => (IF left <= 0 THEN 0 ELSE IF left < n THEN left ELSE n) = size
  BY <1>2, <1>4, <1>10
<1> QED
  BY <1>3, <1>8, <1>9, <1>11, <1>12 DEF Tells

\* The names of the root can be listed.
LEMMA RootListed ==
    ASSUME WireFits, Inv(fs, {})
    PROVE  Listable(Listing(fs, 0))
<1>1. PICK k, d : k = fs /\ d = 0
  OBVIOUS
<1>2. Inv(k, {}) /\ k \in Disk /\ d \in NodeNum /\ IsDir(k, d)
  BY <1>1, RootIsDir DEF Inv
<1>3. NodeOK(k, d)
  BY <1>2 DEF Inv, NodesOK, IsDir
<1>4. PICK n : n = k.node[d].file_size
  OBVIOUS
<1>5. n \in Nat /\ n < 256 * 256
  <2>1. n \in Nat /\ n < NODE_TABLE_BLOCKS
    BY <1>2, <1>3, <1>4, PlacesInBlock, FewerEntriesThanNodes
  <2> QED
    BY <2>1, LayoutAssumption DEF WireFits
<1>6. ASSUME NEW i \in 1 .. n
      PROVE  k.block[DataOf(k, k.node[d])][i - 1].name \in Name
  <2>1. i - 1 \in Places(k.node[d])
    BY <1>2, <1>3, <1>4, <1>5, PlacesInBlock
  <2>2. EntryOK(k, {}, d, Entry(k, d, i - 1))
    BY <1>2, <2>1 DEF Inv, EntriesOK
  <2> QED
    BY <2>2 DEF EntryOK, Entry
<1>7. PICK l : l = Listing(k, d)
  OBVIOUS
<1>8. l = [i \in 1 .. n |-> Spelling[k.block[DataOf(k, k.node[d])][i - 1].name]]
  BY <1>4, <1>7 DEF Listing
<1>9. ASSUME NEW x \in Name
      PROVE  /\ Spelling[x] \in Seq(Byte)
             /\ Len(Spelling[x]) + 3 < 256 * 128
             /\ \A j \in 1 .. Len(Spelling[x]) : Spelling[x][j] # 0
  <2> DEFINE s == Spelling[x]
  <2>1. s \in Seq(Byte \ {0, 47}) /\ LowShort(Len(s) + 17)
    BY CallsAssumption DEF WireFits
  <2> HIDE DEF s
  <2>2. s \in Seq(Byte) /\ Len(s) \in Nat /\ \A j \in 1 .. Len(s) : s[j] # 0
    BY <2>1
  <2>3. Len(s) + 3 < 256 * 128
    BY <2>1, <2>2 DEF LowShort
  <2> QED
    BY <2>2, <2>3 DEF s
<1>10. ASSUME NEW i \in 1 .. n
       PROVE  /\ l[i] \in Seq(Byte)
              /\ Len(l[i]) + 3 < 256 * 128
              /\ \A j \in 1 .. Len(l[i]) : l[i][j] # 0
  <2>1. PICK x \in Name : x = k.block[DataOf(k, k.node[d])][i - 1].name
    BY <1>6
  <2>2. l[i] = Spelling[x]
    BY <1>8, <2>1
  <2> QED
    BY <1>9, <2>2
<1>11. l \in Seq(Seq(Byte)) /\ Len(l) = n
  <2>1. DOMAIN l = 1 .. n
    BY <1>8
  <2>2. l = [i \in 1 .. n |-> l[i]]
    BY <1>8, <2>1
  <2>3. l \in [1 .. n -> Seq(Byte)]
    BY <1>10, <2>2
  <2>4. \E m \in Nat : l \in [1 .. m -> Seq(Byte)]
    BY <1>5, <2>3
  <2> QED
    BY <1>5, <2>3
<1> QED
  BY <1>1, <1>5, <1>7, <1>10, <1>11 DEF Listable

\* readdir.
LEMMA ReaddirTells ==
    ASSUME WireFits, Inv(fs, {}), NEW h, h.handler = "readdir", NEW fd,
           NEW done, done = _sac_readdir(RootPath \o << 0 >>)
    PROVE  Tells(done, h, fd)
<1>1. PICK l : l = Listing(fs, 0)
  OBVIOUS
<1>2. PICK p : p = ReaddirAnswer(l)
  OBVIOUS
<1>3. Sound(p) /\ p.message_id = 0 /\ EntriesOf(p) = l
  BY <1>1, <1>2, RootListed, ReaddirAnswerIs
<1>4. done.answer = p
  BY <1>1, <1>2, RootSpelled DEF _sac_readdir, Answered
<1>5. Handled(h, p) = Returns(0, NoStat, l)
  BY <1>3 DEF Handled
<1>6. Wanted(h, fd, done.k) = Returns(0, NoStat, l)
  BY <1>1 DEF Wanted
<1> QED
  BY <1>3, <1>4, <1>5, <1>6 DEF Tells

\* Every answer can be sent, and tells what it should when no directory but
\* the root has entries and the file that is read has a block.
LEMMA ExecuteTells ==
    ASSUME WireFits, Up, Inv(fs, {}), SameKind(fs), NEW h, Ready(fs, h),
           NEW f, f # NoHandle => IsOpen(fs, birth, f.fd, f.birth),
           NEW g, Means(g, h, f)
    PROVE  /\ Sound(execute(g).answer)
           /\ /\ Shallow(fs) /\ h.handler # "release"
              /\ h.handler = "read" => node[f.fd].indirect_pointer_block # 0
              => Tells(execute(g), h, f.fd)
<1>1. CASE Opens(h)
  <2>1. PICK n \in NodeNum : execute(g).answer = create_default_package(n)
    BY <1>1, ExecuteLeaves
  <2>2. Tells(execute(g), h, f.fd)
    BY <1>1, <2>1, OpenTells
  <2> QED
    BY <2>2 DEF Tells
<1>2. CASE h.handler = "mkdir"
  <2>1. h.name \in Name /\ execute(g) = _sac_mkdir(Path(h.name) \o <<0>>)
    BY <1>2 DEF Means, execute, Opens
  <2> QED
    BY <1>2, <2>1, MkdirTells DEF Tells
<1>3. CASE h.handler = "unlink"
  <2>1. h.name \in Name /\ execute(g) = _sac_remove(Path(h.name) \o <<0>>)
    BY <1>3 DEF Means, execute, Opens
  <2> QED
    BY <1>3, <2>1, FileTells DEF Tells
<1>4. CASE h.handler = "rmdir"
  <2>1. h.name \in Name /\ execute(g) = _sac_rmdir(Path(h.name) \o <<0>>)
    BY <1>4 DEF Means, execute, Opens
  <2> QED
    BY <1>4, <2>1, RmdirTells
<1>5. CASE h.handler = "rename"
  <2>1. /\ h.name \in Name /\ h.new_name \in Name
        /\ execute(g) = _sac_rename(Path(h.name) \o <<0>>, Path(h.new_name) \o <<0>>)
    BY <1>5 DEF Means, execute, Opens
  <2> QED
    BY <1>5, <2>1, RenameTells DEF Tells
<1>6. CASE h.handler = "truncate"
  <2>1. h.name \in Name /\ execute(g) = _sac_truncate(Path(h.name) \o <<0>>, h.size)
    BY <1>6 DEF Means, execute, Opens
  <2> QED
    BY <1>6, <2>1, FileTells DEF Tells
<1>7. CASE h.handler = "write"
  <2>1. /\ f # NoHandle /\ h.size \in 1 .. DIR_ENTRIES
        /\ execute(g) = _sac_write(f.fd, h.size, h.offset)
    BY <1>7 DEF Means, execute, Opens
  <2>2. f.fd \in NodeNum
    BY <2>1 DEF IsOpen
  <2> QED
    BY <1>7, <2>1, <2>2, WriteTells DEF Tells
<1>8. CASE h.handler = "read"
  <2>1. /\ f # NoHandle /\ h.size \in FileSize /\ h.offset = 0
        /\ execute(g) = _sac_read(f.fd, h.size, 0)
    BY <1>8 DEF Means, execute, Opens
  <2>2. f.fd \in NodeNum /\ Live(fs, f.fd) /\ node[f.fd].state = 1
    BY <2>1, RootHas DEF IsOpen
  <2> QED
    BY <1>8, <2>1, <2>2, ReadTells
<1>9. CASE h.handler = "getattr"
  <2>1. h.name \in Name /\ execute(g) = _sac_stat(Path(h.name) \o <<0>>)
    BY <1>9 DEF Means, execute, Opens
  <2> QED
    BY <1>9, <2>1, GetattrTells DEF Tells
<1>10. CASE h.handler = "readdir"
  <2>1. execute(g) = _sac_readdir(RootPath \o <<0>>)
    BY <1>10 DEF Means, execute, Opens
  <2> QED
    BY <1>10, <2>1, ReaddirTells DEF Tells
<1>11. CASE h.handler = "release"
  <2>1. execute(g) = _sac_close(g.args[1])
    BY <1>11 DEF Means, execute, Opens
  <2> QED
    BY <1>11, <2>1, CloseAnswers
<1> QED
  BY <1>1, <1>2, <1>3, <1>4, <1>5, <1>6, <1>7, <1>8, <1>9, <1>10, <1>11 DEF Means, Opens

-----------------------------------------------------------------------------
(***************************************************************************)
(* Sizes: no call gives an entry to a directory that is not the root.      *)
(***************************************************************************)
\* A new node is empty, and all nodes but files keep their sizes.
Sizes(k, l) ==
    \A n \in NodeNum \ {0} : Live(l, n) =>
        /\ ~Live(k, n) => l.node[n].file_size = 0
        /\ Live(k, n) => \/ l.node[n].file_size = k.node[n].file_size
                         \/ k.node[n].state = 1

\* An entry that goes changes no node but that of its directory.
LEMMA DeletedSizes ==
    ASSUME NEW k \in Disk, NEW name, NEW l, l = delete_directory_entry(k, 0, name)
    PROVE  /\ \A n \in NodeNum \ {0} : l.node[n] = k.node[n]
           /\ DOMAIN l.node = NodeNum /\ Record(l)
<1>1. CASE ~exists_entry(k, k.node[0], name)
  BY <1>1 DEF delete_directory_entry, Disk, Record
<1>2. CASE exists_entry(k, k.node[0], name)
  <2> DEFINE nd == k.node[0]
             q  == DataOf(k, nd)
             i  == Least(Matches(k, nd, name))
             y  == [nd EXCEPT !.file_size = @ - 1,
                              !.indirect_pointer_block = IF nd.file_size = 1 THEN 0 ELSE @]
             z  == [k.block EXCEPT ![q] = [j \in Slot |->
                      IF j < i \/ j + 1 \notin Slot THEN @[j] ELSE @[j + 1]]]
  <2>1. l = [k EXCEPT !.block = z, !.node[0] = y]
    BY <1>2 DEF delete_directory_entry
  <2> HIDE DEF y, z
  <2>2. l.node = [k.node EXCEPT ![0] = y] /\ Record(l)
    BY <2>1 DEF Disk, Record
  <2> QED
    BY <2>2 DEF Disk
<1> QED
  BY <1>1, <1>2

\* Nor does one that comes.
LEMMA AddedSizes ==
    ASSUME NEW k \in Disk, NEW name, NEW nd, NEW c, NEW l,
           l = add_directory_entry(k, 0, nd, name, c)
    PROVE  /\ \A n \in NodeNum \ {0} : l.node[n] = k.node[n]
           /\ DOMAIN l.node = NodeNum /\ Record(l)
<1>1. CASE nd.file_size >= DIR_ENTRIES
  BY <1>1 DEF add_directory_entry, Wild, Disk, Record
<1>2. CASE ~(nd.file_size >= DIR_ENTRIES) /\ NoRoom(k, nd)
  BY <1>2 DEF add_directory_entry, Exit, Disk, Record
<1>3. CASE ~(nd.file_size >= DIR_ENTRIES) /\ ~NoRoom(k, nd)
  <2> DEFINE a == FirstBlocks(k, nd)
             y == [nd EXCEPT !.file_size = @ + 1, !.indirect_pointer_block = a.pointers]
             z == [a.block EXCEPT ![a.data][nd.file_size] = [node_num |-> c, name |-> name]]
  <2>1. l = [k EXCEPT !.bitmap = a.bitmap, !.block = z, !.node[0] = y]
    BY <1>3 DEF add_directory_entry
  <2> HIDE DEF a, y, z
  <2>2. l.node = [k.node EXCEPT ![0] = y] /\ Record(l)
    BY <2>1 DEF Disk, Record
  <2> QED
    BY <2>2 DEF Disk
<1> QED
  BY <1>1, <1>2, <1>3

\* sac_open and sac_mkdir.
LEMMA CreateSizes ==
    ASSUME NEW k, Inv(k, {}), k.server = "up", NEW name \in Name, NEW state \in {1, 2},
           NEW l, l = CreateNode(k, 0, name, state), l.server = "up"
    PROVE  Sizes(k, l)
<1>1. k \in Disk
  BY DEF Inv
<1>2. PICK c \in NodeNum \ {0} :
         /\ c = get_free_node_block(k.bitmap) - NODE_TABLE_INITIAL_BLOCK
         /\ ~Live(k, c) /\ Links(k, l, c, 0, name)
  BY RootIsDir, CreateKeepsInv
<1>3. FreeBlocks(k.bitmap, NodeBlock) # {}
  BY DEF CreateNode, Exit
<1>4. PICK b : b = get_free_node_block(k.bitmap)
  OBVIOUS
<1>5. PICK g : g = [k EXCEPT !.bitmap = @ \cup {b}, !.node[c] = create_node(state, 0)]
  OBVIOUS
<1>6. l = add_directory_entry(g, 0, k.node[0], name, c)
  BY <1>2, <1>3, <1>4, <1>5 DEF CreateNode
<1>7. g \in Disk
  <2>1. create_node(state, 0) \in t_node
    BY NodeBlocks, Regions DEF create_node, t_node, Blk
  <2>2. b \in Block
    <3>1. NodeBlock \subseteq Nat /\ \A x \in NodeBlock : x \in Block
      BY Regions
    <3>2. get_free_block(k.bitmap, NodeBlock) \in NodeBlock
      BY <1>3, <3>1, FreeBlockIsFree
    <3> QED
      BY <1>4, <3>1, <3>2 DEF get_free_node_block
  <2> QED
    BY <1>1, <1>2, <1>5, <2>1, <2>2 DEF Disk
<1>8. \A n \in NodeNum \ {0} : l.node[n] = g.node[n]
  <2>1. PICK nd : nd = k.node[0]
    OBVIOUS
  <2>2. l = add_directory_entry(g, 0, nd, name, c)
    BY <1>6, <2>1
  <2> QED
    BY <1>7, <2>2, AddedSizes
<1>9. /\ g.node[c].file_size = 0
      /\ \A n \in NodeNum \ {c} : g.node[n] = k.node[n]
  BY <1>1, <1>2, <1>5 DEF Disk, create_node
<1>10. \A n \in NodeNum \ {c} : Live(l, n) <=> Live(k, n)
  BY <1>2 DEF Links, Kin
<1> QED
  BY <1>2, <1>8, <1>9, <1>10 DEF Sizes

\* sac_remove and sac_rmdir.
LEMMA RemoveSizes ==
    ASSUME NEW k, Inv(k, {}), NEW name, Has(k, name), NEW c, c = Leads(k, name),
           NEW l, l \in {RemoveFile(k, c, name), RemoveDir(k, c, name)}, Unlinks(k, l, c)
    PROVE  Sizes(k, l)
<1>1. k \in Disk
  BY DEF Inv
<1>2. c \in NodeNum \ {0} /\ ParentOf(k.node[c]) = 0
  BY LeadsTo, RootIsDir, GetEntry DEF Has, Leads
<1>3. ASSUME NEW g \in Disk, g.node = k.node, NEW d, d = delete_directory_entry(g, 0, name),
             NEW z, l.node = [d.node EXCEPT ![c] = z]
      PROVE  \A n \in NodeNum \ {0, c} : l.node[n] = k.node[n]
  <2>1. \A n \in NodeNum \ {0} : d.node[n] = g.node[n]
    BY <1>3, DeletedSizes
  <2>2. \A n \in NodeNum \ {0, c} : l.node[n] = d.node[n]
    BY <1>3
  <2> QED
    BY <1>3, <2>1, <2>2
<1>4. \A n \in NodeNum \ {0, c} : l.node[n] = k.node[n]
  <2>1. CASE l = RemoveFile(k, c, name)
    <3>1. PICK g : g = [k EXCEPT !.bitmap = @ \ BlocksOf(k, k.node[c])]
      OBVIOUS
    <3>2. PICK d : d = delete_directory_entry(g, 0, name)
      OBVIOUS
    <3>3. PICK z : z = [k.node[c] EXCEPT !.state = 0]
      OBVIOUS
    <3>4. g \in Disk /\ g.node = k.node
      BY <1>1, <3>1 DEF Disk
    <3>5. l.node = [d.node EXCEPT ![c] = z]
      BY <1>2, <2>1, <3>1, <3>2, <3>3 DEF RemoveFile
    <3> QED
      BY <1>3, <3>2, <3>4, <3>5
  <2>2. CASE l = RemoveDir(k, c, name)
    <3>1. PICK d : d = delete_directory_entry(k, 0, name)
      OBVIOUS
    <3>2. PICK z : z = [d.node[c] EXCEPT !.state = 0]
      OBVIOUS
    <3>3. l.node = [d.node EXCEPT ![c] = z]
      BY <1>2, <2>2, <3>1, <3>2 DEF RemoveDir
    <3> QED
      BY <1>1, <1>3, <3>1, <3>3
  <2> QED
    BY <2>1, <2>2
<1>5. ~Live(l, c) /\ \A n \in NodeNum \ {c} : Live(l, n) <=> Live(k, n)
  BY DEF Unlinks, Kin
<1> QED
  BY <1>4, <1>5 DEF Sizes

\* sac_rename.
LEMMA MoveSizes ==
    ASSUME NEW k, Inv(k, {}), NEW name, Has(k, name), NEW newName,
           NEW l, l = MoveEntry(k, 0, name, 0, newName), l.server = "up",
           NEW h, Executing(k, l, h), h.handler = "rename"
    PROVE  Sizes(k, l)
<1>1. k \in Disk
  BY DEF Inv
<1>2. PICK c, g, f : /\ c = Leads(k, name)
                     /\ g = delete_directory_entry(k, 0, name)
                     /\ f = add_directory_entry(g, 0, g.node[0], newName, c)
  OBVIOUS
<1>3. c \in NodeNum \ {0}
  BY <1>2, LeadsTo
<1>4. g \in Disk
  <2>1. 0 \in NodeNum /\ IsDir(k, 0)
    BY RootIsDir
  <2>2. exists_entry(k, k.node[0], name) /\ c = get_entry(k, k.node[0], name).node_num
    BY <1>2 DEF Has, Leads
  <2>3. Erases(k, 0, c, g)
    BY <1>2, <2>1, <2>2, DeleteKeepsInv
  <2> QED
    BY <2>3 DEF Erases, Inv
<1>5. /\ \A n \in NodeNum \ {0} : f.node[n] = k.node[n]
      /\ DOMAIN f.node = NodeNum /\ Record(f)
  BY <1>1, <1>2, <1>4, DeletedSizes, AddedSizes
<1>6. l = IF f.server # "up" THEN f
          ELSE [f EXCEPT !.node[c].parent_block = get_block_num_from_node_num(0)]
  BY <1>2 DEF MoveEntry, Leads
<1>7. \A n \in NodeNum \ {0} : l.node[n].file_size = k.node[n].file_size
  <2>1. CASE f.server # "up"
    BY <1>5, <1>6, <2>1
  <2>2. CASE f.server = "up"
    <3>1. PICK z : z = [f.node[c] EXCEPT !.parent_block = get_block_num_from_node_num(0)]
      OBVIOUS
    <3>2. l.node = [f.node EXCEPT ![c] = z]
      BY <1>5, <1>6, <2>2, <3>1 DEF Record
    <3>3. k.node[c] \in t_node
      BY <1>1, <1>3 DEF Disk
    <3>4. z.file_size = k.node[c].file_size
      BY <1>3, <1>5, <3>1, <3>3 DEF t_node
    <3> QED
      BY <1>3, <1>5, <3>2, <3>4
  <2> QED
    BY <2>1, <2>2
<1>8. ASSUME NEW n \in NodeNum, Live(l, n) PROVE Live(k, n)
  BY <1>8, LeadsTo DEF Executing, Creating, Removing, Renaming, KinAll, Kin, Links
<1> QED
  BY <1>7, <1>8 DEF Sizes

\* sac_write.
LEMMA WriteSizes ==
    ASSUME Up, Inv(fs, {}), NEW fd, IsOpen(fs, birth, fd, birth[fd]),
           NEW count, NEW offset, offset + count \in FileSize,
           NEW k, k = _sac_write(fd, count, offset).k, k.server = "up"
    PROVE  Sizes(fs, k)
<1>1. PICK j : j = fs
  OBVIOUS
<1>2. Inv(j, {}) /\ j.server = "up" /\ j \in Disk
  BY <1>1 DEF Up, fs, Inv
<1>3. fd \in NodeNum /\ Live(j, fd) /\ j.node[fd].state = 1
  BY <1>1 DEF IsOpen
<1>4. PICK end \in 1 .. DIR_ENTRIES : end = offset + count
  <2>1. PICK z : z = offset + count
    OBVIOUS
  <2>2. z \in 1 .. DIR_ENTRIES
    BY <2>1, TreeAssumption, LayoutAssumption
  <2> QED
    BY <2>1, <2>2
<1>5. PICK w : w = WriteFile(j, fd, end)
  OBVIOUS
<1>6. PICK q, t : /\ q = DataOf(w, w.node[fd])
                  /\ k = IF w.server # "up" THEN w ELSE [w EXCEPT !.block[q] = t]
  <2>1. PICK kept, q : /\ kept = {i \in Slot : i < offset /\ i < j.node[fd].file_size}
                       /\ q = DataOf(w, w.node[fd])
    OBVIOUS
  <2>2. PICK t : t = [i \in Slot |-> IF i \in kept THEN j.block[q][i] ELSE w.block[q][i]]
    OBVIOUS
  <2>3. k = IF w.server # "up" THEN w ELSE [w EXCEPT !.block[q] = t]
    BY <1>1, <1>3, <1>4, <1>5, <2>1, <2>2, RootHas DEF _sac_write, Done
  <2> QED
    BY <2>1, <2>3
<1>7. ~NoRoom(j, j.node[fd])
  <2> SUFFICES ASSUME NoRoom(j, j.node[fd]) PROVE FALSE
    OBVIOUS
  <2>1. w.server = "exit"
    BY <1>2, <1>5 DEF WriteFile, Exit, Disk
  <2> QED
    BY <1>6, <2>1
<1>8. PICK s \in 1 .. DIR_ENTRIES, r \in [Slot -> t_dir_entry] : w = Grown(j, fd, s, r)
  BY <1>2, <1>3, <1>5, <1>7, WriteGrows
<1>9. /\ \A m \in NodeNum : Live(w, m) <=> Live(j, m)
      /\ \A m \in NodeNum \ {fd} : w.node[m] = j.node[m]
      /\ w \in Disk
  <2>1. j \in Disk /\ RootLive(j) /\ NodesOK(j) /\ BlocksApart(j)
    BY <1>2 DEF Inv
  <2>2. Grows(j, fd, s, r, w)
    BY <1>2, <1>3, <1>7, <1>8, <2>1, Grow
  <2> QED
    BY <2>2 DEF Grows
<1>10. k.node = w.node /\ k.bitmap = w.bitmap
  BY <1>6, <1>9 DEF Disk
<1> QED
  BY <1>1, <1>3, <1>9, <1>10 DEF Sizes, Live

\* sac_truncate.
LEMMA TruncateSizes ==
    ASSUME Up, Inv(fs, {}), NEW h, h.handler = "truncate", h.name \in Name,
           h.size \in FileSize \cup {0},
           NEW k, k = _sac_truncate(Path(h.name) \o << 0 >>, h.size).k, k.server = "up"
    PROVE  Sizes(fs, k)
<1>1. PICK j : j = fs
  OBVIOUS
<1>2. Inv(j, {}) /\ j.server = "up" /\ j \in Disk
  BY <1>1 DEF Up, fs, Inv
<1>3. CASE ~IsFile(h.name)
  <2>1. k = j
    BY <1>1, <1>3, NamedIs DEF _sac_truncate, Done
  <2> QED
    BY <1>1, <2>1 DEF Sizes
<1>4. CASE IsFile(h.name)
  <2>1. PICK c : c = Child(0, h.name)
    OBVIOUS
  <2>2. c \in NodeNum /\ Live(j, c) /\ j.node[c].state = 1
    BY <1>1, <1>2, <1>4, <2>1, RootHas, LeadsTo DEF IsFile
  <2>3. PICK n : n = h.size
    OBVIOUS
  <2>4. FileSize \subseteq 1 .. DIR_ENTRIES - 1 /\ DIR_ENTRIES \in Nat
    BY TreeAssumption, LayoutAssumption
  <2>5. n \in FileSize \cup {0} /\ ~(n < 0)
    <3>1. n \in FileSize \cup {0}
      BY <2>3
    <3>2. \A i \in 1 .. DIR_ENTRIES - 1 : ~(i < 0)
      BY <2>4
    <3>3. n \in 1 .. DIR_ENTRIES - 1 \/ n = 0
      BY <2>4, <3>1
    <3> QED
      BY <3>1, <3>2, <3>3
  <2>6. n \in FileSize \cup {0} /\ k = TruncateFile(j, c, n)
    BY <1>1, <1>4, <2>1, <2>3, <2>5, NamedIs DEF _sac_truncate, Done
  <2>7. KinAll(j, k)
    BY <1>2, <2>2, <2>6, TruncateKeepsInv
  <2>8. \A m \in NodeNum \ {c} : k.node[m] = j.node[m]
    <3>1. CASE n > j.node[c].file_size
      <4>1. k = WriteFile(j, c, n)
        BY <2>6, <3>1 DEF TruncateFile
      <4>2. n \in 1 .. DIR_ENTRIES
        <5>1. j.node[c].file_size \in Nat
          BY <1>2, <2>2 DEF Disk, t_node
        <5>2. n # 0
          BY <3>1, <5>1
        <5>3. n \in 1 .. DIR_ENTRIES - 1
          BY <2>4, <2>6, <5>2
        <5> QED
          BY <2>4, <5>3
      <4>3. ~NoRoom(j, j.node[c])
        BY <1>2, <4>1 DEF WriteFile, Exit, Disk
      <4>4. PICK s \in 1 .. DIR_ENTRIES, r \in [Slot -> t_dir_entry] : k = Grown(j, c, s, r)
        BY <1>2, <2>2, <4>1, <4>2, <4>3, WriteGrows
      <4>5. j \in Disk /\ RootLive(j) /\ NodesOK(j) /\ BlocksApart(j)
        BY <1>2 DEF Inv
      <4>6. Grows(j, c, s, r, k)
        BY <2>2, <4>3, <4>4, <4>5, Grow
      <4> QED
        BY <4>6 DEF Grows
    <3>2. CASE ~(n > j.node[c].file_size)
      <4>1. PICK z, F : z = j.node[c] /\ F = BlocksOf(j, j.node[c])
        OBVIOUS
      <4>2. PICK y : y \in {[z EXCEPT !.file_size = 0, !.indirect_pointer_block = 0],
                            [z EXCEPT !.file_size = n]}
                     /\ k.node = [j.node EXCEPT ![c] = y]
        BY <1>2, <2>2, <2>6, <3>2, <4>1 DEF TruncateFile, Disk
      <4> QED
        BY <1>2, <4>2 DEF Disk
    <3> QED
      BY <3>1, <3>2
  <2> QED
    BY <1>1, <2>2, <2>7, <2>8 DEF Sizes, KinAll, Kin
<1> QED
  BY <1>3, <1>4

\* Every request leaves the sizes as its call may.
LEMMA ExecuteSizes ==
    ASSUME Up, Inv(fs, {}), SameKind(fs), NEW h, Ready(fs, h),
           NEW f, f # NoHandle => IsOpen(fs, birth, f.fd, f.birth),
           NEW g, Means(g, h, f),
           NEW k, k = execute(g).k, k.server = "up"
    PROVE  Sizes(fs, k)
<1>1. PICK j : j = fs
  OBVIOUS
<1>2. Inv(j, {}) /\ j.server = "up"
  BY <1>1 DEF Up, fs
<1>3. Outcome(k) /\ Executing(j, k, h)
  BY <1>1, ExecuteLeaves DEF Leaves
<1>4. ASSUME k = j PROVE Sizes(j, k)
  BY <1>4 DEF Sizes
<1>5. ASSUME NEW x \in Name, NEW state \in {1, 2}, k = CreateNode(j, 0, x, state)
      PROVE  Sizes(j, k)
  BY <1>2, <1>5, CreateSizes
<1>6. CASE Opens(h) \/ h.handler = "mkdir"
  <2>1. PICK x \in Name : x = h.name
    BY <1>6 DEF Means, Opens
  <2>2. CASE Opens(h)
    <3>1. execute(g) = _sac_open(Path(x) \o <<0>>)
      BY <2>1, <2>2 DEF Means, execute, Opens
    <3>2. k \in {j, CreateNode(j, 0, x, 1)}
      BY <1>1, <3>1, NamedIs DEF _sac_open, Done
    <3> QED
      BY <1>1, <1>4, <1>5, <3>2
  <2>3. CASE h.handler = "mkdir"
    <3>1. execute(g) = _sac_mkdir(Path(x) \o <<0>>)
      BY <2>1, <2>3 DEF Means, execute, Opens
    <3>2. k \in {j, CreateNode(j, 0, x, 2)}
      BY <1>1, <3>1, NamedIs DEF _sac_mkdir, Done
    <3> QED
      BY <1>1, <1>4, <1>5, <3>2
  <2> QED
    BY <1>6, <2>2, <2>3
<1>7. CASE h.handler \in {"unlink", "rmdir"}
  <2>1. PICK x \in Name : x = h.name
    BY <1>7 DEF Means, Opens
  <2>2. PICK c : c = Leads(j, x)
    OBVIOUS
  <2>3. \/ k = j
        \/ /\ Has(j, x)
           /\ \/ j.node[c].state = 1 /\ k = RemoveFile(j, c, x)
              \/ /\ j.node[c].state = 2 /\ ~(j.node[c].file_size > 0)
                 /\ k = RemoveDir(j, c, x)
    <3>1. CASE h.handler = "unlink"
      <4>1. execute(g) = _sac_remove(Path(x) \o <<0>>)
        BY <2>1, <3>1 DEF Means, execute, Opens
      <4> QED
        BY <1>1, <2>2, <4>1, NamedIs, RootHas DEF _sac_remove, Done, IsFile
    <3>2. CASE h.handler = "rmdir"
      <4>1. execute(g) = _sac_rmdir(Path(x) \o <<0>>)
        BY <2>1, <3>2 DEF Means, execute, Opens
      <4> QED
        BY <1>1, <2>2, <4>1, NamedIs, RootHas DEF _sac_rmdir, Done, IsDirectory
    <3> QED
      BY <1>7, <3>1, <3>2
  <2>4. CASE k # j
    <3>1. /\ Has(j, x)
          /\ \/ j.node[c].state = 1 /\ k = RemoveFile(j, c, x)
             \/ /\ j.node[c].state = 2 /\ ~(j.node[c].file_size > 0)
                /\ k = RemoveDir(j, c, x)
      BY <2>3, <2>4
    <3>2. c \in NodeNum /\ Live(j, c) /\ Holds(j, 0, c, x)
      BY <1>2, <2>2, <3>1, LeadsTo
    <3>3. j.node[c].file_size \in Nat
      BY <1>2, <3>2 DEF Inv, Disk, t_node
    <3>4. Unlinks(j, k, c)
      <4>1. CASE j.node[c].state = 1 /\ k = RemoveFile(j, c, x)
        BY <1>2, <2>2, <3>1, <4>1, RootIsDir, RemoveFileKeepsInv DEF Leads, Has
      <4>2. CASE j.node[c].state = 2 /\ ~(j.node[c].file_size > 0) /\ k = RemoveDir(j, c, x)
        <5>1. j.node[c].file_size = 0
          BY <3>3, <4>2
        <5> QED
          BY <1>2, <2>2, <3>1, <4>2, <5>1, RootIsDir, RemoveDirKeepsInv DEF Leads, Has
      <4> QED
        BY <3>1, <4>1, <4>2
    <3> QED
      BY <1>1, <1>2, <2>2, <3>1, <3>4, RemoveSizes
  <2> QED
    BY <1>1, <1>4, <2>4
<1>8. CASE h.handler = "rename"
  <2>1. PICK x \in Name, y \in Name : x = h.name /\ y = h.new_name
    BY <1>8 DEF Means, Opens
  <2>2. execute(g) = _sac_rename(Path(x) \o <<0>>, Path(y) \o <<0>>)
    BY <1>8, <2>1 DEF Means, execute, Opens
  <2>3. Has(j, x)
    BY <1>1, <1>8, <2>1 DEF Ready
  <2>4. k = MoveEntry(j, 0, x, 0, y)
    BY <1>1, <2>2, <2>3, NamedIs, RootHas DEF _sac_rename, Done
  <2> QED
    BY <1>1, <1>2, <1>3, <1>8, <2>3, <2>4, MoveSizes
<1>9. CASE h.handler = "truncate"
  <2>1. /\ h.name \in Name /\ h.size \in FileSize \cup {0}
        /\ execute(g) = _sac_truncate(Path(h.name) \o <<0>>, h.size)
    BY <1>9 DEF Means, execute, Opens
  <2> QED
    BY <1>9, <2>1, TruncateSizes
<1>10. CASE h.handler = "write"
  <2>1. /\ f # NoHandle /\ h.offset + h.size \in FileSize
        /\ execute(g) = _sac_write(f.fd, h.size, h.offset)
    BY <1>10 DEF Means, execute, Opens
  <2>2. IsOpen(fs, birth, f.fd, birth[f.fd])
    BY <2>1 DEF IsOpen
  <2> QED
    BY <2>1, <2>2, WriteSizes
<1>11. CASE h.handler \in {"getattr", "readdir", "release", "read"}
  <2>1. g.op \in {"stat", "readdir", "close", "read"}
    BY <1>11 DEF Means, Opens
  <2>2. k = fs
    BY <2>1 DEF execute, _sac_stat, _sac_readdir, _sac_close, _sac_read, Answered, Done
  <2> QED
    BY <1>1, <1>4, <2>2
<1> QED
  BY <1>6, <1>7, <1>8, <1>9, <1>10, <1>11 DEF Means, Opens

\* A node that stays keeps its kind.
LEMMA KindKept ==
    ASSUME NEW k, NEW l, NEW h, Executing(k, l, h), NEW n \in NodeNum, Live(k, n), Live(l, n)
    PROVE  l.node[n].state = k.node[n].state
BY DEF Executing, KinAll, Kin, Creating, Removing, Renaming, Links, Unlinks

\* No directory but the root gets an entry.
LEMMA ShallowStays ==
    ASSUME NEW k, NEW l, NEW h, Executing(k, l, h), Sizes(k, l), Shallow(k)
    PROVE  Shallow(l)
<1> SUFFICES ASSUME NEW n \in NodeNum \ {0}, IsDir(l, n) PROVE l.node[n].file_size = 0
  BY DEF Shallow
<1>1. CASE ~Live(k, n)
  BY <1>1 DEF Sizes, IsDir
<1>2. CASE Live(k, n)
  <2>1. k.node[n].state = 2
    BY <1>2, KindKept DEF IsDir
  <2> QED
    BY <1>2, <2>1 DEF Sizes, IsDir, Shallow
<1> QED
  BY <1>1, <1>2

-----------------------------------------------------------------------------
(***************************************************************************)
(* The steps keep the invariant.                                           *)
(***************************************************************************)
\* A step that changes neither the disk, unless it ends the server, nor a
\* handle: what it must not do to a connection.
LEMMA QuietKeeps ==
    ASSUME CallsInv, Connections', UNCHANGED <<birth, want, fh>>,
           UNCHANGED vars \/ (~Up' /\ TypeOK'),
           Up' /\ ExitTogether => ExitTogether',
           \A c \in Client :
               /\ client'[c].call = client[c].call
               /\ Busy(c)' => Busy(c)
               /\ Awaits(c)' => Awaits(c)
               /\ Executed(c)' => Executed(c)
               /\ Executed(c)' => \A n \in NodeNum : Placed(c, n) => Placed(c, n)'
    PROVE  CallsInv'
<1>0. TypeOK'
  BY DEF CallsInv, TypeOK, vars
<1>1. Up' => Up /\ UNCHANGED <<vars, fs>>
  BY DEF Up, vars, fs
<1>2. PICK S : want \in [Client -> S]
  BY DEF CallsInv, Wants
<1>3. Wants' /\ HandlesAreNodes'
  BY <1>2 DEF CallsInv, Wants, HandlesAreNodes
<1>4. Openings'
  <2> SUFFICES ASSUME NEW c \in Client, Opens(client'[c].call), Executed(c)'
               PROVE  \E n \in NodeNum : Opening(c, n)'
    BY DEF Openings
  <2>1. PICK n \in NodeNum : Opening(c, n)
    BY DEF CallsInv, Openings
  <2>2. Placed(c, n)'
    BY <2>1 DEF Opening
  <2> QED
    BY <1>1, <2>1, <2>2 DEF Opening
<1>5. ASSUME Up'
      PROVE  Orderly'
  <2>1. Orderly /\ fs' = fs
    BY <1>1, <1>5 DEF CallsInv
  <2>2. Inv(fs, {})' /\ SameKind(fs)' /\ Handles'
    BY <2>1 DEF Orderly, Handles
  <2>3. ExitTogether'
    BY <1>5, <2>1 DEF Orderly
  <2>4. NoClashes'
    BY <2>1 DEF Orderly, NoClashes
  <2>5. \A c \in Client : Awaits(c)' => Ready(fs, client[c].call)'
    BY <2>1 DEF Orderly
  <2>6. \A c, d \in Client : Awaits(c)' => Unopened(fs, client[c].call, fh[d])'
    BY <2>1 DEF Orderly
  <2> QED
    BY <2>2, <2>3, <2>4, <2>5, <2>6 DEF Orderly
<1> QED
  BY <1>0, <1>3, <1>4, <1>5 DEF CallsInv

\* SendPackage.
LEMMA SendKeepsCalls ==
    ASSUME WireFits, CallsInv, NEW c \in Client, SendPackage(c)
    PROVE  CallsInv'
<1>1. Connections'
  BY SendKeeps DEF CallsInv
<1>2. PICK S : Over(S)
  BY DEF CallsInv, Connections, Shapes
<1>3. worker[c].pc \in {"handshake", "function"}
  BY DEF CallsInv, Connections, Connection, SendPackage
<1>4. /\ client[c].pc = "connected" /\ client' = [client EXCEPT ![c].pc = "waiting"]
      /\ UNCHANGED <<worker, to_client>>
  BY DEF SendPackage
<1>5. /\ client'[c].pc = "waiting" /\ client'[c].call = client[c].call
      /\ \A d \in Client \ {c} : client'[d] = client[d]
  BY <1>2, <1>4 DEF Over
<1>6. UNCHANGED <<birth, want, fh>> /\ UNCHANGED vars
  BY DEF SendPackage, vars
<1>7. ExitTogether => ExitTogether'
  BY <1>4, <1>5 DEF ExitTogether
<1>8. ASSUME NEW d \in Client
      PROVE  /\ client'[d].call = client[d].call
             /\ Busy(d)' => Busy(d)
             /\ Awaits(d)' => Awaits(d)
             /\ Executed(d)' => Executed(d)
             /\ Executed(d)' => \A n \in NodeNum : Placed(d, n) => Placed(d, n)'
  <2>1. CASE d = c
    BY <1>3, <1>4, <1>5, <2>1 DEF Busy, Pending, Awaits, Executed
  <2>2. CASE d # c
    BY <1>4, <1>5, <2>2 DEF Busy, Pending, Awaits, Executed, Placed
  <2> QED
    BY <2>1, <2>2
<1> QED
  BY <1>1, <1>6, <1>7, <1>8, QuietKeeps

\* LoseServer.
LEMMA LoseKeepsCalls ==
    ASSUME CallsInv, NEW c \in Client, LoseServer(c)
    PROVE  CallsInv'
<1>1. Connections'
  BY LoseKeeps DEF CallsInv
<1>2. PICK S : Over(S)
  BY DEF CallsInv, Connections, Shapes
<1>3. client' = [client EXCEPT ![c].pc = "exited"] /\ UNCHANGED <<worker, to_client>>
  BY DEF LoseServer
<1>4. \A d \in Client : /\ client'[d].call = client[d].call
                        /\ client'[d].pc \in {client[d].pc, "exited"}
  BY <1>2, <1>3 DEF Over
<1>5. UNCHANGED <<birth, want, fh>> /\ UNCHANGED vars /\ ~Up'
  BY DEF LoseServer, vars, Up
<1>6. ASSUME NEW d \in Client
      PROVE  /\ client'[d].call = client[d].call
             /\ Busy(d)' => Busy(d)
             /\ Awaits(d)' => Awaits(d)
             /\ Executed(d)' => Executed(d)
             /\ Executed(d)' => \A n \in NodeNum : Placed(d, n) => Placed(d, n)'
  BY <1>3, <1>4 DEF Busy, Pending, Awaits, Executed, Placed
<1> QED
  BY <1>1, <1>5, <1>6, QuietKeeps

\* Die, and a call without a server: all threads of the process end.
LEMMA ExitKeepsCalls ==
    ASSUME SAME_MOUNT, CallsInv, Connections', NEW c \in Client,
           client' = [d \in Client |->
               IF Together(c, d) THEN [client[d] EXCEPT !.pc = "exited"] ELSE client[d]],
           UNCHANGED <<vars, birth, want, fh, worker, to_client>>
    PROVE  CallsInv'
<1>1. PICK S : Over(S)
  BY DEF CallsInv, Connections, Shapes
<1>2. \A d \in Client : client'[d].call = client[d].call /\ client'[d].pc = "exited"
  BY <1>1 DEF Over, Together
<1>3. UNCHANGED <<birth, want, fh>> /\ UNCHANGED vars /\ UNCHANGED <<worker, to_client>>
  OBVIOUS
<1>4. ExitTogether'
  BY <1>2 DEF ExitTogether
<1>5. ASSUME NEW d \in Client
      PROVE  /\ client'[d].call = client[d].call
             /\ Busy(d)' => Busy(d)
             /\ Awaits(d)' => Awaits(d)
             /\ Executed(d)' => Executed(d)
             /\ Executed(d)' => \A n \in NodeNum : Placed(d, n) => Placed(d, n)'
  BY <1>2, <1>3 DEF Busy, Pending, Awaits, Executed, Placed
<1> QED
  BY <1>3, <1>4, <1>5, QuietKeeps

\* A step of c's connection thread that is quiet.
LEMMA WorkerKeepsCalls ==
    ASSUME CallsInv, Connections', NEW c \in Client, NEW w, NEW t,
           UNCHANGED <<birth, want, fh, client>>, UNCHANGED vars \/ (~Up' /\ TypeOK'),
           worker' = [worker EXCEPT ![c] = w], to_client' = [to_client EXCEPT ![c] = t],
           \/ w.pc \in {"handshake", "function", "execute"} /\ Awaits(c)
           \/ /\ w.pc = "none" /\ worker[c].pc = "answer"
              /\ t = send_package(worker[c].answer)
    PROVE  CallsInv'
<1>1. PICK S : Over(S)
  BY DEF CallsInv, Connections, Shapes
<1>2. /\ worker'[c] = w /\ to_client'[c] = t
      /\ \A d \in Client \ {c} : worker'[d] = worker[d] /\ to_client'[d] = to_client[d]
  BY <1>1 DEF Over
<1>3. UNCHANGED <<birth, want, fh>> /\ client' = client
  OBVIOUS
<1>4. ExitTogether => ExitTogether'
  BY <1>3 DEF ExitTogether
<1>5. ASSUME NEW d \in Client
      PROVE  /\ client'[d].call = client[d].call
             /\ Busy(d)' => Busy(d)
             /\ Awaits(d)' => Awaits(d)
             /\ Executed(d)' => Executed(d)
             /\ Executed(d)' => \A n \in NodeNum : Placed(d, n) => Placed(d, n)'
  <2>1. CASE d # c
    BY <1>2, <1>3, <2>1 DEF Busy, Pending, Awaits, Executed, Placed
  <2>2. CASE d = c /\ w.pc \in {"handshake", "function", "execute"} /\ Awaits(c)
    BY <1>2, <1>3, <2>2 DEF Busy, Pending, Awaits, Executed, Placed
  <2>3. CASE d = c /\ /\ w.pc = "none" /\ worker[c].pc = "answer"
                      /\ t = send_package(worker[c].answer)
    BY <1>2, <1>3, <2>3 DEF Busy, Pending, Awaits, Executed, Placed
  <2> QED
    BY <2>1, <2>2, <2>3
<1> QED
  BY <1>3, <1>4, <1>5, QuietKeeps

\* ReceiveHandshake.
LEMMA HandshakeKeepsCalls ==
    ASSUME WireFits, CallsInv, NEW c \in Client, ReceiveHandshake(c)
    PROVE  CallsInv'
<1>1. Connections'
  BY HandshakeKeeps DEF CallsInv
<1>2. PICK S : Over(S)
  BY DEF CallsInv, Connections, Shapes
<1>3. PICK w : w = worker'[c]
  OBVIOUS
<1>4. w.pc \in {"function", "none"} /\ worker' = [worker EXCEPT ![c] = w]
  BY <1>2, <1>3 DEF ReceiveHandshake, Over
<1>5. to_client' = [to_client EXCEPT ![c] = to_client[c]]
  BY <1>2 DEF ReceiveHandshake, Over
<1>6. Awaits(c)
  BY DEF Awaits, ReceiveHandshake
<1>7. w.pc = "function"
  <2>1. /\ worker[c].pc = "handshake" /\ Made(client[c].call, fh[c])
        /\ to_server[c] \in {send_handshake, send_handshake \o Sent(c)}
    BY DEF ReceiveHandshake, CallsInv, Connections, Connection
  <2>2. Sent(c) \in Seq(Byte)
    BY <2>1, SentIs DEF CallsInv
  <2>3. receive_package(to_server[c]).message_id = t_identifier_message["SAC"]
    BY <2>1, <2>2, HandshakeIs DEF t_identifier_message
  <2>4. worker' = [worker EXCEPT ![c].pc = "function"]
    BY <2>3 DEF ReceiveHandshake
  <2> QED
    BY <1>2, <1>3, <2>4 DEF Over
<1>8. UNCHANGED <<birth, want, fh, client>> /\ UNCHANGED vars
  BY DEF ReceiveHandshake, vars
<1> QED
  BY <1>1, <1>4, <1>5, <1>6, <1>7, <1>8, WorkerKeepsCalls

\* ReceiveFunction.
LEMMA FunctionKeepsCalls ==
    ASSUME WireFits, CallsInv, NEW c \in Client, ReceiveFunction(c)
    PROVE  CallsInv'
<1>1. Connections'
  BY FunctionKeeps DEF CallsInv
<1>2. PICK S : Over(S)
  BY DEF CallsInv, Connections, Shapes
<1>3. PICK w : w = worker'[c]
  OBVIOUS
<1>4. PICK g : g = deserialize(receive_package(to_server[c]))
  OBVIOUS
<1>5. \/ worker' = [worker EXCEPT ![c].pc = "execute", ![c].f = g] /\ UNCHANGED vars
      \/ worker' = worker /\ ~Up' /\ TypeOK'
  BY <1>4 DEF CallsInv, ReceiveFunction, Store, Wild, Up, fs, TypeOK
<1>6. /\ w.pc \in {"function", "execute"} /\ worker' = [worker EXCEPT ![c] = w]
      /\ UNCHANGED vars \/ (~Up' /\ TypeOK')
  BY <1>2, <1>3, <1>5 DEF ReceiveFunction, Over
<1>7. to_client' = [to_client EXCEPT ![c] = to_client[c]]
  BY <1>2 DEF ReceiveFunction, Over
<1>8. Awaits(c) /\ UNCHANGED <<birth, want, fh, client>>
  BY DEF Awaits, ReceiveFunction
<1> QED
  BY <1>1, <1>6, <1>7, <1>8, WorkerKeepsCalls

\* SendAnswer.
LEMMA AnswerKeepsCalls ==
    ASSUME CallsInv, NEW c \in Client, SendAnswer(c)
    PROVE  CallsInv'
<1>1. Connections'
  BY AnswerKeeps DEF CallsInv
<1>2. PICK t : t = send_package(worker[c].answer)
  OBVIOUS
<1>3. /\ worker[c].pc = "answer"
      /\ worker' = [worker EXCEPT ![c] = NoWorker]
      /\ to_client' = [to_client EXCEPT ![c] = t]
      /\ UNCHANGED <<birth, want, fh, client>> /\ UNCHANGED vars
  BY <1>2 DEF SendAnswer, vars
<1>4. NoWorker.pc = "none"
  BY DEF NoWorker
<1> QED
  BY <1>1, <1>2, <1>3, <1>4, WorkerKeepsCalls

\* Clashing is mutual.
LEMMA ClashBoth ==
    ASSUME NEW h, NEW g, Clash(h, g)
    PROVE  Clash(g, h)
BY DEF Clash

\* What the kernel has seen when it makes a call.
LEMMA CallReady ==
    ASSUME Inv(fs, {}), SameKind(fs),
           NEW c \in Client, NEW h \in PathCalls \cup HandleCalls(c)
    PROVE  Ready(fs, h)
<1>1. PICK k : k = fs
  OBVIOUS
<1>2. Inv(k, {}) /\ SameKind(k)
  BY <1>1
<1>3. ASSUME h.handler \in {"open", "create", "rename"}
      PROVE  h \in PathCalls
  BY <1>3 DEF HandleCalls, Call
<1>4. ASSUME h.handler = "open"
      PROVE  FileNamed(k, h.name)
  <2>1. IsFile(h.name)
    BY <1>3, <1>4 DEF PathCalls, Call
  <2>2. Has(k, h.name) /\ k.node[Leads(k, h.name)].state = 1
    BY <1>1, <2>1, RootHas DEF IsFile
  <2> QED
    BY <1>2, <2>2, LeadsTo DEF FileNamed
<1>5. ASSUME h.handler = "create"
      PROVE  ~Has(k, h.name)
  <2>1. ~Found(0, h.name)
    BY <1>3, <1>5 DEF PathCalls, Call
  <2> QED
    BY <1>1, <2>1, RootHas
<1>6. ASSUME h.handler = "rename"
      PROVE  /\ Has(k, h.name)
             /\ \A n, m \in NodeNum : Holds(k, 0, n, h.name) /\ Holds(k, 0, m, h.new_name)
                                        => k.node[n].state = k.node[m].state
  <2>1. VfsAllows(<<0>>, h.name, <<0>>, h.new_name) /\ h.name \in Name /\ h.new_name \in Name
    BY <1>3, <1>6 DEF PathCalls, Call
  <2>2. PICK x \in Name, y \in Name : x = h.name /\ y = h.new_name
    BY <2>1
  <2>3. Dir(<<0>>) = 0
    BY DEF Dir
  <2>4. Has(k, x) /\ (Has(k, y) => k.node[Leads(k, y)].state = k.node[Leads(k, x)].state)
    BY <1>1, <2>1, <2>2, <2>3, RootHas DEF VfsAllows
  <2>5. ASSUME NEW n \in NodeNum, NEW m \in NodeNum, Holds(k, 0, n, x), Holds(k, 0, m, y)
        PROVE  k.node[n].state = k.node[m].state
    <3>1. Has(k, y)
      BY <2>5, HeldHas
    <3>2. k.node[n].state = k.node[Leads(k, x)].state
      BY <1>2, <2>4, <2>5, LeadsTo DEF SameKind
    <3>3. k.node[m].state = k.node[Leads(k, y)].state
      BY <1>2, <2>5, <3>1, LeadsTo DEF SameKind
    <3> QED
      BY <2>4, <3>1, <3>2, <3>3
  <2> QED
    BY <2>2, <2>4, <2>5
<1> QED
  BY <1>1, <1>4, <1>5, <1>6 DEF Ready

\* A client that is idle: the kernel may call.
LEMMA IdleQuiet ==
    ASSUME CallsInv, NEW c \in Client, client[c].pc = "idle"
    PROVE  worker[c].pc = "none" /\ ~Busy(c) /\ ~Awaits(c) /\ ~Executed(c)
<1>1. worker[c].pc = "none"
  BY DEF CallsInv, Connections, Connection
<1> QED
  BY <1>1 DEF Busy, Pending, Awaits, Executed

\* A handler that returns at once.
LEMMA AtOnceKeepsCalls ==
    ASSUME CallsInv, NEW c \in Client, NEW h \in PathCalls \cup HandleCalls(c), StartCall(c, h),
           ReturnsAtOnce(h)
    PROVE  CallsInv'
<1>1. Connections'
  BY StartKeeps DEF CallsInv
<1>2. PICK S : Over(S)
  BY DEF CallsInv, Connections, Shapes
<1>3. PICK y :
         /\ client' = [client EXCEPT ![c] = [pc |-> "idle", call |-> h, result |-> Nothing]]
         /\ fh' = [fh EXCEPT ![c] = y] /\ y \in {NoHandle, fh[c]}
  BY DEF StartCall
<1>4. UNCHANGED <<to_client, worker>> /\ UNCHANGED <<vars, want, birth>>
  BY DEF StartCall
<1>5. UNCHANGED <<birth, want, fs>> /\ Up' = Up /\ UNCHANGED <<worker, to_client>>
  BY <1>4 DEF vars, fs, Up
<1>6. client[c].pc = "idle"
  BY DEF StartCall
<1>7. /\ client'[c].pc = "idle"
      /\ \A d \in Client \ {c} : client'[d] = client[d] /\ fh'[d] = fh[d]
      /\ fh'[c] \in {NoHandle, fh[c]}
  BY <1>2, <1>3 DEF Over
<1>8. TypeOK'
  BY <1>4 DEF CallsInv, TypeOK, vars
<1>9. Wants'
  BY <1>4 DEF CallsInv, Wants
<1>10. HandlesAreNodes'
  BY <1>7 DEF CallsInv, HandlesAreNodes
<1>11. /\ ~Busy(c)' /\ ~Awaits(c)' /\ ~Executed(c)'
       /\ \A d \in Client \ {c} : /\ Busy(d)' = Busy(d)
                                  /\ Awaits(d)' = Awaits(d)
                                  /\ Executed(d)' = Executed(d)
  BY <1>5, <1>6, <1>7, IdleQuiet DEF Busy, Pending, Awaits, Executed
<1>12. Openings'
  <2> SUFFICES ASSUME NEW d \in Client, Opens(client'[d].call), Executed(d)'
               PROVE  \E n \in NodeNum : Opening(d, n)'
    BY DEF Openings
  <2>1. d # c /\ Opens(client[d].call) /\ Executed(d)
    BY <1>7, <1>11
  <2>2. PICK n \in NodeNum : Opening(d, n)
    BY <2>1 DEF CallsInv, Openings
  <2>3. client'[d] = client[d] /\ want'[d] = want[d]
    BY <1>5, <1>7, <2>1
  <2> QED
    BY <1>5, <2>2, <2>3 DEF Opening, Placed
<1>13. ASSUME Up'
       PROVE  Orderly'
  <2>1. Orderly
    BY <1>5, <1>13 DEF CallsInv
  <2>2. Inv(fs, {})' /\ SameKind(fs)'
    BY <1>5, <2>1 DEF Orderly
  <2>3. ExitTogether'
    BY <1>6, <1>7, <2>1 DEF Orderly, ExitTogether
  <2>4. NoClashes'
    BY <1>7, <1>11, <2>1 DEF Orderly, NoClashes
  <2>5. ASSUME NEW d \in Client, Awaits(d)'
        PROVE  /\ Ready(fs, client[d].call)'
               /\ \A e \in Client : Unopened(fs, client[d].call, fh[e])'
    <3>1. d # c /\ Awaits(d) /\ client'[d] = client[d]
      BY <1>7, <1>11, <2>5
    <3> QED
      BY <1>5, <1>7, <2>1, <3>1 DEF Orderly, Unopened
  <2>6. Handles'
    BY <1>5, <1>7, <2>1 DEF Orderly, Handles
  <2> QED
    BY <2>2, <2>3, <2>4, <2>5, <2>6 DEF Orderly
<1> QED
  BY <1>1, <1>8, <1>9, <1>10, <1>12, <1>13 DEF CallsInv

\* A call that connects.
LEMMA ConnectKeepsCalls ==
    ASSUME SAME_MOUNT, CallsInv,
           NEW c \in Client, NEW h \in PathCalls \cup HandleCalls(c), StartCall(c, h),
           ~ReturnsAtOnce(h), Up
    PROVE  CallsInv'
<1>1. Connections'
  BY StartKeeps DEF CallsInv
<1>2. PICK S : Over(S)
  BY DEF CallsInv, Connections, Shapes
<1>3. /\ client' = [client EXCEPT ![c].pc = "connected", ![c].call = h]
      /\ to_client' = [to_client EXCEPT ![c] = <<>>]
      /\ worker' = [worker EXCEPT ![c] = [NoWorker EXCEPT !.pc = "handshake"]]
      /\ UNCHANGED fh /\ UNCHANGED <<vars, want, birth>>
  BY DEF StartCall
<1>4. UNCHANGED <<birth, fs, want, fh>> /\ Up' = Up
  BY <1>3 DEF vars, fs, Up
<1>5. /\ client'[c].pc = "connected" /\ client'[c].call = h
      /\ worker'[c].pc = "handshake"
      /\ \A d \in Client \ {c} : client'[d] = client[d] /\ worker'[d] = worker[d]
                                 /\ to_client'[d] = to_client[d]
  BY <1>2, <1>3 DEF Over, NoWorker
<1>6. client[c].pc = "idle" /\ MayCall(c, h)
  BY DEF StartCall
<1>7. TypeOK'
  BY <1>3 DEF CallsInv, TypeOK, vars
<1>8. Wants' /\ HandlesAreNodes'
  BY <1>4 DEF CallsInv, Wants, HandlesAreNodes
<1>9. /\ ~Executed(c)'
      /\ \A d \in Client \ {c} : /\ Busy(d)' = Busy(d)
                                 /\ Awaits(d)' = Awaits(d)
                                 /\ Executed(d)' = Executed(d)
  BY <1>5 DEF Busy, Pending, Awaits, Executed
<1>10. Openings'
  <2> SUFFICES ASSUME NEW d \in Client, Opens(client'[d].call), Executed(d)'
               PROVE  \E n \in NodeNum : Opening(d, n)'
    BY DEF Openings
  <2>1. d # c /\ Opens(client[d].call) /\ Executed(d)
    BY <1>5, <1>9
  <2>2. PICK n \in NodeNum : Opening(d, n)
    BY <2>1 DEF CallsInv, Openings
  <2>3. client'[d] = client[d] /\ worker'[d] = worker[d] /\ to_client'[d] = to_client[d]
    BY <1>5, <2>1
  <2> QED
    BY <1>4, <2>2, <2>3 DEF Opening, Placed
<1>11. Orderly'
  <2>1. Orderly
    BY DEF CallsInv
  <2>2. Inv(fs, {})' /\ SameKind(fs)' /\ Handles'
    BY <1>4, <2>1 DEF Orderly, Handles
  <2>3. \A d \in Client : client[d].pc # "exited"
    BY <1>6, <2>1 DEF Orderly, ExitTogether
  <2>4. ExitTogether'
    BY <1>5, <2>3 DEF ExitTogether
  <2>5. ASSUME NEW d \in Client \ {c}, Busy(d)
        PROVE  ~Clash(h, client[d].call) /\ ~Clash(client[d].call, h)
    <3>1. client[d].pc # "idle"
      BY <2>5, IdleQuiet
    <3>2. client[d].pc \in ClientPc
      BY <1>2 DEF Over
    <3>3. Pending(d)
      BY <2>3, <3>1, <3>2 DEF Pending, ClientPc
    <3>4. ~Clash(h, client[d].call)
      BY <1>6, <3>3 DEF MayCall, Together
    <3> QED
      BY <3>4, ClashBoth
  <2>6. NoClashes'
    BY <1>5, <1>9, <2>1, <2>5 DEF Orderly, NoClashes
  <2>7. Ready(fs, h)
    BY <2>1, CallReady DEF Orderly
  <2>8. ASSUME NEW d \in Client
        PROVE  Unopened(fs, h, fh[d])
    <3> SUFFICES ASSUME h.handler = "unlink", fh[d] # NoHandle, Has(fs, h.name)
                 PROVE  Leads(fs, h.name) # fh[d].fd
      BY DEF Unopened
    <3>1. ~Opened(d, h.name)
      BY <1>6 DEF MayCall, Together
    <3> QED
      BY <3>1, RootHas DEF Opened
  <2>9. ASSUME NEW d \in Client, Awaits(d)'
        PROVE  /\ Ready(fs, client[d].call)'
               /\ \A e \in Client : Unopened(fs, client[d].call, fh[e])'
    <3>1. CASE d = c
      BY <1>4, <1>5, <2>7, <2>8, <3>1
    <3>2. CASE d # c
      <4>1. Awaits(d) /\ client'[d] = client[d]
        BY <1>5, <1>9, <2>9, <3>2
      <4> QED
        BY <1>4, <2>1, <4>1 DEF Orderly
    <3> QED
      BY <3>1, <3>2
  <2> QED
    BY <2>2, <2>4, <2>6, <2>9 DEF Orderly
<1> QED
  BY <1>1, <1>7, <1>8, <1>10, <1>11 DEF CallsInv

\* StartCall.
LEMMA StartKeepsCalls ==
    ASSUME SAME_MOUNT, CallsInv,
           NEW c \in Client, NEW h \in PathCalls \cup HandleCalls(c), StartCall(c, h)
    PROVE  CallsInv'
<1>1. CASE ~ReturnsAtOnce(h) /\ ~Up
  <2>1. Connections'
    BY StartKeeps DEF CallsInv
  <2>2. /\ client' = [d \in Client |->
               IF Together(c, d) THEN [client[d] EXCEPT !.pc = "exited"] ELSE client[d]]
        /\ UNCHANGED <<fh, to_server, to_client, worker>> /\ UNCHANGED <<vars, want, birth>>
    BY <1>1 DEF StartCall
  <2>3. UNCHANGED <<vars, birth, want, fh, worker, to_client>>
    BY <2>2
  <2> QED
    BY <2>1, <2>2, <2>3, ExitKeepsCalls
<1> QED
  BY <1>1, AtOnceKeepsCalls, ConnectKeepsCalls

\* The answer to an open tells the client the number of the node.
LEMMA NodeComesBack ==
    ASSUME WireFits, NEW n \in NodeNum
    PROVE  receive_package(send_package(create_default_package(n))).message_id = n
<1>1. n \in Nat /\ n < 256 * 256
  BY LayoutAssumption DEF NodeNum, WireFits
<1>2. PICK p : p = create_default_package(n)
  OBVIOUS
<1>3. /\ p = [message_id |-> p.message_id, size |-> p.size, data |-> p.data]
      /\ p.message_id = n /\ p.size = 0 /\ p.data = <<>>
  BY <1>2 DEF create_default_package
<1>4. /\ n < 256 * (256 * (256 * 256)) /\ 0 < 256 * (256 * (256 * 256))
      /\ <<>> \in Seq(Byte) /\ Len(<<>>) = 0
  BY <1>1
<1>5. Sound(p)
  BY <1>1, <1>3, <1>4 DEF Sound, Identifier
<1>6. send_package(p) \in Seq(Byte) /\ receive_package(send_package(p) \o <<>>) = p
  BY <1>4, <1>5, PackageSent
<1>7. send_package(p) \o <<>> = send_package(p)
  BY <1>6
<1> QED
  BY <1>2, <1>3, <1>6, <1>7

\* What a client gets to hold when it takes its answer: nothing new, or the
\* file that the server has opened for it.
LEMMA HandleTaken ==
    ASSUME WireFits, CallsInv, NEW c \in Client, ReceiveAnswer(c)
    PROVE  \E y :
             /\ fh' = [fh EXCEPT ![c] = y]
             /\ \/ y \in {NoHandle, fh[c]}
                \/ \E n \in NodeNum :
                      /\ y.fd = n
                      /\ Up => /\ Holds(fs, 0, n, client[c].call.name)
                               /\ IsOpen(fs, birth, n, y.birth)
<1>1. PICK h, p : h = client[c].call /\ p = receive_package(to_client[c])
  OBVIOUS
<1>2. fh' = [fh EXCEPT ![c] =
                IF h.handler = "release" THEN NoHandle
                ELSE IF h.handler \in {"open", "create"} /\ p.message_id >= 0
                  THEN [fd |-> p.message_id, birth |-> want[c].birth] ELSE @]
  BY <1>1 DEF ReceiveAnswer
<1>3. CASE Opens(h) /\ p.message_id >= 0
  <2>1. worker[c].pc = "none" /\ Executed(c)
    <3>1. ~Complete(<<>>)
      BY DEF Complete, HEAD_SIZE
    <3> QED
      BY <3>1 DEF CallsInv, Connections, Connection, ReceiveAnswer, Executed
  <2>2. PICK n \in NodeNum : Opening(c, n)
    BY <1>1, <1>3, <2>1 DEF CallsInv, Openings
  <2>3. p.message_id = n
    BY <1>1, <2>1, <2>2, NodeComesBack DEF Opening, Placed
  <2>4. PICK y : y = [fd |-> n, birth |-> want[c].birth]
    OBVIOUS
  <2>5. fh' = [fh EXCEPT ![c] = y]
    BY <1>2, <1>3, <2>3, <2>4 DEF Opens
  <2>6. y.fd = n /\ y.birth = want[c].birth
    BY <2>4
  <2> QED
    BY <2>2, <2>5, <2>6 DEF Opening
<1>4. CASE ~(Opens(h) /\ p.message_id >= 0)
  <2>1. fh' = [fh EXCEPT ![c] = IF h.handler = "release" THEN NoHandle ELSE fh[c]]
    BY <1>2, <1>4 DEF Opens
  <2> QED
    BY <2>1
<1> QED
  BY <1>3, <1>4

\* ReceiveAnswer.
LEMMA ReceiveKeepsCalls ==
    ASSUME WireFits, CallsInv, NEW c \in Client, ReceiveAnswer(c)
    PROVE  CallsInv'
<1>1. Connections'
  BY ReceiveAnswerKeeps DEF CallsInv
<1>2. PICK S : Over(S)
  BY DEF CallsInv, Connections, Shapes
<1>3. PICK y :
         /\ fh' = [fh EXCEPT ![c] = y]
         /\ \/ y \in {NoHandle, fh[c]}
            \/ \E n \in NodeNum :
                  /\ y.fd = n
                  /\ Up => /\ Holds(fs, 0, n, client[c].call.name)
                           /\ IsOpen(fs, birth, n, y.birth)
  BY HandleTaken
<1>4. PICK x : client' = [client EXCEPT ![c] = [pc |-> "idle", call |-> client[c].call, result |-> x]]
  BY DEF ReceiveAnswer
<1>5. /\ client'[c].pc = "idle" /\ client[c].pc = "waiting"
      /\ \A d \in Client : client'[d].call = client[d].call
      /\ \A d \in Client \ {c} : client'[d] = client[d]
  BY <1>2, <1>4 DEF Over, ReceiveAnswer
<1>6. worker' = worker /\ UNCHANGED <<want, birth>> /\ UNCHANGED vars
  BY DEF ReceiveAnswer, vars
<1>7. fs' = fs /\ Up' = Up /\ UNCHANGED <<want, birth>>
  BY <1>6 DEF vars, fs, Up
<1>8. worker[c].pc = "none"
  <2>1. ~Complete(<<>>)
    BY DEF Complete, HEAD_SIZE
  <2> QED
    BY <2>1 DEF CallsInv, Connections, Connection, ReceiveAnswer
<1>9. fh'[c] = y /\ \A d \in Client \ {c} : fh'[d] = fh[d] /\ to_client'[d] = to_client[d]
  BY <1>2, <1>3 DEF Over, ReceiveAnswer
<1>10. \A d \in Client : Busy(d)' => Busy(d)
  BY <1>5, <1>6, <1>8 DEF Busy, Pending
<1>11. ~Executed(c)' /\ ~Awaits(c) /\ Busy(c) /\ \A d \in Client : Awaits(d)' = Awaits(d)
  BY <1>5, <1>6, <1>8 DEF Executed, Awaits, Busy, Pending
<1>12. \A d \in Client \ {c} : Executed(d)' = Executed(d)
  BY <1>5, <1>6 DEF Executed
<1>13. TypeOK'
  BY <1>6 DEF CallsInv, TypeOK, vars
<1>14. Wants'
  BY <1>7 DEF CallsInv, Wants
<1>15. HandlesAreNodes'
  BY <1>3, <1>9 DEF CallsInv, HandlesAreNodes
<1>16. Openings'
  <2> SUFFICES ASSUME NEW d \in Client, Opens(client'[d].call), Executed(d)'
               PROVE  \E n \in NodeNum : Opening(d, n)'
    BY DEF Openings
  <2>1. d # c /\ Opens(client[d].call) /\ Executed(d)
    BY <1>5, <1>11, <1>12
  <2>2. PICK n \in NodeNum : Opening(d, n)
    BY <2>1 DEF CallsInv, Openings
  <2>3. client'[d] = client[d] /\ worker'[d] = worker[d] /\ to_client'[d] = to_client[d]
    BY <1>5, <1>6, <1>9, <2>1
  <2> QED
    BY <1>7, <2>2, <2>3 DEF Opening, Placed
<1>17. ASSUME Up'
       PROVE  Orderly'
  <2>1. Orderly
    BY <1>7, <1>17 DEF CallsInv
  <2>2. Inv(fs, {})' /\ SameKind(fs)'
    BY <1>7, <2>1 DEF Orderly
  <2>3. ExitTogether'
    BY <1>5, <2>1 DEF Orderly, ExitTogether
  <2>4. NoClashes'
    BY <1>5, <1>10, <2>1 DEF Orderly, NoClashes
  <2>5. Handles'
    BY <1>3, <1>7, <1>9, <1>17, <2>1 DEF Orderly, Handles
  <2>6. ASSUME NEW d \in Client, Awaits(d)'
        PROVE  Ready(fs, client[d].call)'
    BY <1>5, <1>7, <1>11, <2>1, <2>6 DEF Orderly
  <2>7. ASSUME NEW d \in Client, Awaits(d)', NEW e \in Client
        PROVE  Unopened(fs, client[d].call, fh[e])'
    <3>1. Awaits(d) /\ d # c
      BY <1>11, <2>7
    <3>2. PICK g : g = client[d].call
      OBVIOUS
    <3>3. Unopened(fs, g, fh[e]) /\ Unopened(fs, g, fh[c])
      BY <2>1, <3>1, <3>2 DEF Orderly
    <3>4. Unopened(fs, g, y)
      <4>1. CASE y \in {NoHandle, fh[c]}
        BY <3>3, <4>1 DEF Unopened
      <4>2. ASSUME NEW n \in NodeNum, y.fd = n, Holds(fs, 0, n, client[c].call.name),
                   IsOpen(fs, birth, n, y.birth)
            PROVE  Unopened(fs, g, y)
        <5> SUFFICES ASSUME g.handler = "unlink", Has(fs, g.name), Leads(fs, g.name) = n
                     PROVE  FALSE
          BY <4>2 DEF Unopened
        <5>1. PICK k : k = fs
          OBVIOUS
        <5>2. Inv(k, {}) /\ Holds(k, 0, n, client[c].call.name) /\ n \in NodeNum \ {0}
          BY <2>1, <4>2, <5>1 DEF Orderly, IsOpen
        <5>3. Holds(k, 0, n, g.name)
          BY <5>1, <5>2, LeadsTo
        <5>4. client[c].call.name = g.name /\ g.name \in Name
          BY <5>2, <5>3, OneName, HeldLive
        <5>5. ~Clash(client[c].call, g)
          BY <1>11, <2>1, <3>1, <3>2 DEF Orderly, NoClashes, Busy, Awaits
        <5> QED
          BY <5>4, <5>5, TreeAssumption DEF Clash, Takes, Uses
      <4> QED
        BY <1>3, <1>7, <1>17, <4>1, <4>2
    <3>5. client'[d].call = g /\ fs' = fs /\ fh'[e] \in {fh[e], y}
      BY <1>5, <1>7, <1>9, <3>2
    <3> QED
      BY <3>3, <3>4, <3>5
  <2> QED
    BY <2>2, <2>3, <2>4, <2>5, <2>6, <2>7 DEF Orderly
<1> QED
  BY <1>1, <1>13, <1>14, <1>15, <1>16, <1>17 DEF CallsInv

\* What is executed is what c's call means, and its handle is open.
LEMMA ExecutionMeans ==
    ASSUME WireFits, CallsInv, NEW c \in Client, Execute(c)
    PROVE  /\ Up /\ Inv(fs, {}) /\ SameKind(fs) /\ Ready(fs, client[c].call)
           /\ fh[c] # NoHandle => IsOpen(fs, birth, fh[c].fd, fh[c].birth)
           /\ Means(worker[c].f, client[c].call, fh[c])
<1>1. PICK h, f, g : h = client[c].call /\ f = fh[c] /\ g = worker[c].f
  OBVIOUS
<1>2. Up /\ worker[c].pc = "execute"
  BY DEF Execute
<1>3. Made(h, f)
  BY <1>1, <1>2 DEF CallsInv, Connections, Connection
<1>4. /\ g.op = Request(h, f.fd).op
      /\ \A i \in DOMAIN Meant(Request(h, f.fd)) : g.args[i] = Meant(Request(h, f.fd))[i]
  <2>1. ExecutesWhatWasAsked
    BY ConnectionsGiveAsked DEF CallsInv
  <2> QED
    BY <1>1, <1>2, <2>1 DEF ExecutesWhatWasAsked
<1>5. Means(g, h, f)
  BY <1>3, <1>4, FunctionMeant
<1>6. Orderly
  BY <1>2 DEF CallsInv
<1> QED
  BY <1>1, <1>2, <1>5, <1>6 DEF Orderly, Awaits, Handles

\* What the execution of c's request leaves.
LEMMA ExecutionIs ==
    ASSUME WireFits, CallsInv, NEW c \in Client, Execute(c)
    PROVE  \E k, a, x :
             /\ k = execute(worker[c].f).k /\ a = execute(worker[c].f).answer
             /\ x.returns = Wanted(client[c].call, fh[c].fd, k)
             /\ ~x.bare /\ client[c].call.handler = "read"
                   => node[fh[c].fd].indirect_pointer_block # 0
             /\ fs' = k /\ TypeOK' /\ Outcome(k)
             /\ k.server = "up" => Executing(fs, k, client[c].call)
             /\ birth' = Born(fs, k, birth)
             /\ worker' = [worker EXCEPT ![c].pc = "answer", ![c].answer = a]
             /\ want' = [want EXCEPT ![c] = x]
             /\ Opens(client[c].call) => \E n \in NodeNum :
                   /\ a = create_default_package(n)
                   /\ k.server = "up" =>
                         Holds(k, 0, n, client[c].call.name) /\ IsOpen(k, birth', n, x.birth)
<1>1. PICK h, f, g : h = client[c].call /\ f = fh[c] /\ g = worker[c].f
  OBVIOUS
<1>2. Up
  BY ExecutionMeans
<1>3. Means(g, h, f)
  BY <1>1, ExecutionMeans
<1>4. /\ Inv(fs, {}) /\ SameKind(fs) /\ Ready(fs, h)
      /\ f # NoHandle => IsOpen(fs, birth, f.fd, f.birth)
  BY <1>1, ExecutionMeans
<1>5. PICK k, a : k = execute(g).k /\ a = execute(g).answer
  OBVIOUS
<1>6. /\ Leaves(k, h)
      /\ Opens(h) <=> g.op = "open"
      /\ Opens(h) => \E n \in NodeNum :
            /\ a = create_default_package(n)
            /\ k.server = "up" =>
                  Holds(k, 0, n, h.name) /\ IsOpen(k, Born(fs, k, birth), n, Born(fs, k, birth)[n])
  BY <1>2, <1>3, <1>4, <1>5, ExecuteLeaves
<1>7. Outcome(k) /\ (k.server = "up" => Executing(fs, k, h))
  BY <1>6 DEF Leaves
<1>8. Store(k) /\ birth' = Born(fs, k, birth)
  BY <1>1, <1>5 DEF Execute, Born
<1>9. TypeOK' /\ fs' = k
  <2>1. TypeOK
    BY DEF CallsInv
  <2>2. TreeInv' /\ fs' = k
    BY <1>7, <1>8, <2>1, Stored
  <2> QED
    BY <2>2 DEF TreeInv
<1>10. worker' = [worker EXCEPT ![c].pc = "answer", ![c].answer = a]
  BY <1>1, <1>5 DEF Execute
<1>11. PICK y, z :
          /\ y = Wanted(client[c].call, fh[c].fd, k)
          /\ z = (/\ client[c].call.handler = "read"
                  /\ node[fh[c].fd].indirect_pointer_block = 0)
  OBVIOUS
<1>12. PICK x : x = [returns |-> y,
                     birth |-> IF g.op = "open" /\ a.message_id \in NodeNum
                                 THEN birth'[a.message_id] ELSE 0,
                     bare |-> z]
  OBVIOUS
<1>13. want' = [want EXCEPT ![c] = x]
  <2>1. want' = [want EXCEPT ![c] =
                   [returns |-> Wanted(client[c].call, fh[c].fd, k),
                    birth   |-> IF g.op = "open" /\ a.message_id \in NodeNum
                                  THEN Born(fs, k, birth)[a.message_id] ELSE 0,
                    bare    |-> /\ client[c].call.handler = "read"
                                /\ node[fh[c].fd].indirect_pointer_block = 0]]
    BY <1>1, <1>5 DEF Execute, Born
  <2> QED
    BY <1>8, <1>11, <1>12, <2>1
<1>14. ASSUME Opens(h)
       PROVE  \E n \in NodeNum :
                 /\ a = create_default_package(n)
                 /\ k.server = "up" => Holds(k, 0, n, h.name) /\ IsOpen(k, birth', n, x.birth)
  <2>1. PICK n \in NodeNum :
            /\ a = create_default_package(n)
            /\ k.server = "up" => Holds(k, 0, n, h.name) /\ IsOpen(k, birth', n, birth'[n])
    BY <1>6, <1>8, <1>14
  <2>2. a.message_id = n
    BY <2>1 DEF create_default_package
  <2>3. x.birth = birth'[n]
    BY <1>6, <1>12, <1>14, <2>2
  <2> QED
    BY <2>1, <2>3
<1>15. x.returns = y /\ x.bare = z
  BY <1>12
<1>16. ~x.bare /\ client[c].call.handler = "read"
          => node[fh[c].fd].indirect_pointer_block # 0
  BY <1>11, <1>15
<1> QED
  BY <1>1, <1>5, <1>7, <1>8, <1>9, <1>10, <1>11, <1>13, <1>14, <1>15, <1>16

\* Execute.
LEMMA ExecuteKeepsCalls ==
    ASSUME WireFits, CallsInv, NEW c \in Client, Execute(c)
    PROVE  CallsInv'
<1>1. Connections'
  BY ExecuteKeeps DEF CallsInv
<1>2. PICK S : Over(S)
  BY DEF CallsInv, Connections, Shapes
<1>3. PICK T : want \in [Client -> T]
  BY DEF CallsInv, Wants
<1>4. PICK l, a, x :
             /\ fs' = l /\ TypeOK' /\ Outcome(l)
             /\ l.server = "up" => Executing(fs, l, client[c].call)
             /\ birth' = Born(fs, l, birth)
             /\ worker' = [worker EXCEPT ![c].pc = "answer", ![c].answer = a]
             /\ want' = [want EXCEPT ![c] = x]
             /\ Opens(client[c].call) => \E n \in NodeNum :
                   /\ a = create_default_package(n)
                   /\ l.server = "up" =>
                         Holds(l, 0, n, client[c].call.name) /\ IsOpen(l, birth', n, x.birth)
  BY ExecutionIs
<1>5. PICK k, h : k = fs /\ h = client[c].call
  OBVIOUS
<1>6. Orderly /\ Inv(k, {}) /\ SameKind(k) /\ Ready(k, h) /\ Busy(c)
  BY <1>5 DEF CallsInv, Execute, Orderly, Awaits, Busy
<1>7. Up' => Inv(l, {}) /\ Executing(k, l, h)
  <2>1. Up' => l.server = "up"
    BY <1>4 DEF Up, fs
  <2> QED
    BY <1>4, <1>5, <2>1 DEF Outcome
<1>8. UNCHANGED <<client, fh, to_client>> /\ worker[c].pc = "execute"
  BY DEF Execute
<1>9. /\ worker'[c].pc = "answer" /\ worker'[c].answer = a /\ want'[c] = x
      /\ \A d \in Client \ {c} : worker'[d] = worker[d] /\ want'[d] = want[d]
  BY <1>2, <1>3, <1>4 DEF Over
<1>10. /\ ~Awaits(c)' /\ \A d \in Client : Busy(d)' = Busy(d)
       /\ \A d \in Client \ {c} : Awaits(d)' = Awaits(d) /\ Executed(d)' = Executed(d)
  BY <1>8, <1>9 DEF Busy, Pending, Awaits, Executed
<1>11. Wants'
  <2>1. want' \in [Client -> T \cup {x}]
    BY <1>3, <1>4
  <2> QED
    BY <2>1 DEF Wants
<1>12. HandlesAreNodes'
  BY <1>8 DEF CallsInv, HandlesAreNodes
<1>13. ASSUME NEW d \in Client \ {c}, Busy(d)
       PROVE  ~Clash(h, client[d].call)
  BY <1>5, <1>6, <1>13 DEF Orderly, NoClashes
<1>14. Openings'
  <2> SUFFICES ASSUME NEW d \in Client, Opens(client'[d].call), Executed(d)'
               PROVE  \E n \in NodeNum : Opening(d, n)'
    BY DEF Openings
  <2>1. CASE d = c
    <3>1. PICK n \in NodeNum :
             /\ a = create_default_package(n)
             /\ l.server = "up" =>
                   Holds(l, 0, n, client[c].call.name) /\ IsOpen(l, birth', n, x.birth)
      BY <1>4, <1>8, <2>1
    <3>2. Placed(c, n)'
      BY <1>9, <3>1 DEF Placed
    <3>3. Up' => l.server = "up"
      BY <1>4 DEF Up, fs
    <3> QED
      BY <1>4, <1>8, <1>9, <2>1, <3>1, <3>2, <3>3 DEF Opening
  <2>2. CASE d # c
    <3>1. Opens(client[d].call) /\ Executed(d) /\ Busy(d)
      BY <1>8, <1>10, <2>2 DEF Executed, Busy, Pending
    <3>2. PICK n \in NodeNum : Opening(d, n)
      BY <3>1 DEF CallsInv, Openings
    <3>3. Placed(d, n)'
      BY <1>8, <1>9, <2>2, <3>2 DEF Opening, Placed
    <3>4. PICK y : y = client[d].call.name
      OBVIOUS
    <3>5. PICK b : b = want[d].birth
      OBVIOUS
    <3>6. Holds(k, 0, n, y) /\ IsOpen(k, birth, n, b)
      BY <1>5, <3>2, <3>4, <3>5 DEF Opening, Execute
    <3>7. ~Clash(h, client[d].call) /\ y # Junk
      <4>1. y \in Name
        BY <1>6, <3>6, HeldLive
      <4> QED
        BY <1>13, <2>2, <3>1, <4>1, TreeAssumption
    <3>8. Takes(h) => h.name # y
      BY <3>4, <3>7 DEF Clash, Uses
    <3>9. ASSUME Up'
          PROVE  Holds(l, 0, n, y) /\ IsOpen(l, birth', n, b)
      <4>1. Holds(l, 0, n, y)
        BY <1>6, <1>7, <3>6, <3>8, <3>9, NamesStay
      <4>2. ASSUME h.handler = "unlink", Has(k, h.name), Leads(k, h.name) = n
            PROVE  FALSE
        <5>1. Holds(k, 0, n, h.name)
          BY <1>6, <4>2, LeadsTo
        <5>2. h.name = y
          BY <1>6, <3>6, <5>1, OneName DEF IsOpen
        <5> QED
          BY <3>8, <4>2, <5>2 DEF Takes
      <4>3. IsOpen(l, Born(k, l, birth), n, b)
        BY <1>6, <1>7, <3>6, <3>9, <4>2, OpenStays
      <4> QED
        BY <1>4, <1>5, <4>1, <4>3
    <3>10. client'[d].call.name = y /\ want'[d].birth = b
      BY <1>8, <1>9, <2>2, <3>4, <3>5
    <3> QED
      BY <1>4, <3>3, <3>9, <3>10 DEF Opening
  <2> QED
    BY <2>1, <2>2
<1>15. ASSUME Up'
       PROVE  Orderly'
  <2>1. Inv(l, {}) /\ Executing(k, l, h)
    BY <1>7, <1>15
  <2>2. SameKind(l)
    BY <1>6, <2>1, KindsStay
  <2>3. Inv(fs, {})' /\ SameKind(fs)'
    BY <1>4, <2>1, <2>2
  <2>4. ExitTogether' /\ NoClashes'
    BY <1>6, <1>8, <1>10 DEF Orderly, ExitTogether, NoClashes
  <2>5. ASSUME NEW d \in Client, Awaits(d)'
        PROVE  /\ Ready(fs, client[d].call)'
               /\ \A e \in Client : Unopened(fs, client[d].call, fh[e])'
    <3>1. d # c /\ Awaits(d) /\ Busy(d)
      BY <1>10, <2>5 DEF Awaits, Busy
    <3>2. PICK g : g = client[d].call
      OBVIOUS
    <3>3. ~Clash(h, g)
      BY <1>13, <3>1, <3>2
    <3>4. Ready(k, g) /\ \A e \in Client : Unopened(k, g, fh[e])
      BY <1>5, <1>6, <3>1, <3>2 DEF Orderly
    <3>5. Ready(l, g)
      BY <1>6, <2>1, <3>3, <3>4, ReadyStays
    <3>6. ASSUME NEW e \in Client
          PROVE  Unopened(l, g, fh[e])
      BY <1>6, <2>1, <3>3, <3>4, UnopenedStays
    <3> QED
      BY <1>4, <1>8, <3>2, <3>5, <3>6
  <2>6. Handles'
    <3> SUFFICES ASSUME NEW d \in Client, fh[d] # NoHandle
                 PROVE  IsOpen(l, birth', fh[d].fd, fh[d].birth)
      BY <1>4, <1>8 DEF Handles
    <3>1. IsOpen(k, birth, fh[d].fd, fh[d].birth)
      BY <1>5, <1>6 DEF Orderly, Handles
    <3>2. h.handler = "unlink" /\ Has(k, h.name) => Leads(k, h.name) # fh[d].fd
      BY <1>5, <1>6, <1>8 DEF Orderly, Awaits, Unopened
    <3>3. IsOpen(l, Born(k, l, birth), fh[d].fd, fh[d].birth)
      BY <1>6, <2>1, <3>1, <3>2, OpenStays
    <3> QED
      BY <1>4, <1>5, <3>3
  <2> QED
    BY <2>3, <2>4, <2>5, <2>6 DEF Orderly
<1> QED
  BY <1>1, <1>4, <1>11, <1>12, <1>14, <1>15 DEF CallsInv

-----------------------------------------------------------------------------
(***************************************************************************)
(* The beginning, and the theorems.                                        *)
(***************************************************************************)
\* The first free node of a formatted disk is node 1.
LEMMA FirstNode ==
    ASSUME NODE_TABLE_BLOCKS > 1
    PROVE  /\ FreeBlocks(create_default_bitmap, NodeBlock) # {}
           /\ get_free_node_block(create_default_bitmap) - NODE_TABLE_INITIAL_BLOCK = 1
<1> DEFINE R == FreeBlocks(create_default_bitmap, NodeBlock)
           b == NODE_TABLE_INITIAL_BLOCK + 1
<1>1. 1 \in NodeNum /\ Blk(1) = b /\ NODE_TABLE_INITIAL_BLOCK \in Nat
  BY Regions, LayoutAssumption DEF NodeNum, Blk, get_block_num_from_node_num,
     NODE_TABLE_INITIAL_BLOCK, BITMAP_INITIAL_BLOCK
<1>2. b \in R
  BY <1>1, NodeBlocks DEF FreeBlocks
<1>3. R \subseteq Nat
  BY Regions DEF FreeBlocks
<1>4. \A j \in R : b <= j
  <2> SUFFICES ASSUME NEW j \in R, j < b PROVE FALSE
    BY <1>1, <1>3
  <2>1. j \in NodeBlock /\ j \notin create_default_bitmap
    BY DEF FreeBlocks
  <2>2. j = NODE_TABLE_INITIAL_BLOCK
    BY <1>1, <2>1, LayoutAssumption DEF NodeBlock, DATA_INITIAL_BLOCK
  <2>3. NODE_TABLE_INITIAL_BLOCK = BITMAP_BLOCKS + 1
    BY LayoutAssumption DEF NODE_TABLE_INITIAL_BLOCK, BITMAP_INITIAL_BLOCK
  <2> QED
    BY <2>1, <2>2, <2>3 DEF create_default_bitmap
<1>5. PICK x : x = Least(R)
  OBVIOUS
<1>6. x \in R /\ \A j \in R : x <= j
  <2> HIDE DEF R
  <2> QED
    BY <1>2, <1>3, <1>5, LeastExists
<1>7. x = b
  <2> HIDE DEF R
  <2>1. x <= b /\ b <= x /\ x \in Nat /\ b \in Nat
    BY <1>2, <1>3, <1>4, <1>6
  <2> QED
    BY <2>1
<1>8. b - NODE_TABLE_INITIAL_BLOCK = 1
  BY <1>1
<1>9. get_free_node_block(create_default_bitmap) = x
  BY <1>5 DEF get_free_node_block, get_free_block
<1> QED
  BY <1>2, <1>7, <1>8, <1>9

\* A disk on which one node at most has a name.
OneNamed(k) == \A m \in NodeNum \ {0} : Live(k, m) => m = 1

\* The disk the calls begin with.
LEMMA InitDisk ==
    ASSUME NODE_TABLE_BLOCKS > 1, NEW u \in UrandomNode, NEW e \in UrandomEntry,
           NEW k, k = WriteFile(CreateNode(format_disk(u, e), 0, First, 1), 1, 1)
    PROVE  Outcome(k) /\ (k.server = "up" => OneNamed(k) /\ k.node[1].state = 1)
<1>1. PICK f : f = format_disk(u, e)
  OBVIOUS
<1>2. f \in Disk /\ f.bitmap = create_default_bitmap /\ f.node[0] = create_root_dir
      /\ f.server = "up"
  <2>1. u \in t_node /\ e \in t_dir_entry /\ create_root_dir \in t_node
    BY TreeAssumption DEF create_root_dir, t_node
  <2>2. create_default_bitmap \subseteq Block /\ 0 \in NodeNum
    BY Regions
  <2> QED
    BY <1>1, <2>1, <2>2 DEF format_disk, Disk
<1>3. Inv(f, {}) /\ IsDir(f, 0) /\ 0 \in NodeNum
  BY <1>2, FormattedInv, RootIsDir
<1>4. \A n \in NodeNum : Live(f, n) => n = 0
  BY <1>2, NodeBlocks DEF Live, Blk
<1>5. PICK l : l = CreateNode(f, 0, First, 1)
  OBVIOUS
<1>6. /\ Outcome(l)
      /\ l.server = "up" =>
            ~Live(f, 1) /\ l.node[1].state = 1 /\ Links(f, l, 1, 0, First) /\ 1 \in NodeNum
  <2>1. First \in Name
    BY CallsAssumption
  <2>2. /\ Outcome(l)
        /\ l.server = "up" => \E c \in NodeNum \ {0} :
              /\ c = get_free_node_block(f.bitmap) - NODE_TABLE_INITIAL_BLOCK
              /\ ~Live(f, c) /\ l.node[c].state = 1 /\ Links(f, l, c, 0, First)
    BY <1>2, <1>3, <1>5, <2>1, CreateKeepsInv
  <2> QED
    BY <1>2, <2>2, FirstNode
<1>7. k = WriteFile(l, 1, 1)
  BY <1>1, <1>5
<1>8. CASE l.server = "up"
  <2>1. Inv(l, {}) /\ Live(l, 1) /\ l.node[1].state = 1 /\ 1 \in NodeNum
    BY <1>6, <1>8 DEF Outcome, Links
  <2>2. 1 \in 1 .. DIR_ENTRIES
    BY LayoutAssumption
  <2>3. Outcome(k) /\ (k.server = "up" => KinAll(l, k))
    BY <1>7, <1>8, <2>1, <2>2, WriteKeepsInv
  <2>4. \A m \in NodeNum \ {0} : Live(l, m) => m = 1
    BY <1>4, <1>6, <1>8 DEF Links, Kin
  <2> QED
    BY <2>1, <2>3, <2>4 DEF KinAll, Kin, OneNamed
<1>9. CASE l.server # "up"
  <2> DEFINE b == get_free_node_block(f.bitmap)
             c == b - NODE_TABLE_INITIAL_BLOCK
  <2>1. c = 1 /\ FreeBlocks(f.bitmap, NodeBlock) # {}
    BY <1>2, FirstNode
  <2>2. 1 \in NodeNum
    BY LayoutAssumption DEF NodeNum
  <2> DEFINE g == [f EXCEPT !.bitmap  = @ \cup {b}, !.node[c] = create_node(1, 0)]
  <2>3. l = add_directory_entry(g, 0, f.node[0], First, c)
    BY <1>5, <2>1 DEF CreateNode
  <2>4. f.node[0].file_size = 0 /\ f.node[0].indirect_pointer_block = 0
    BY <1>2 DEF create_root_dir
  <2>5. g.server = "up" /\ g.node[1].indirect_pointer_block = 0
    BY <1>2, <2>2, <2>1 DEF Disk, create_node
  <2> HIDE DEF g, c, b
  <2>6. ~(f.node[0].file_size >= DIR_ENTRIES)
    BY <2>4, LayoutAssumption
  <2>7. NoRoom(g, f.node[0]) /\ l = Exit(g)
    <3>1. CASE ~NoRoom(g, f.node[0])
      <4> DEFINE a == FirstBlocks(g, f.node[0])
                 s == f.node[0].file_size
                 y == [f.node[0] EXCEPT !.file_size = @ + 1,
                                        !.indirect_pointer_block = a.pointers]
                 z == [a.block EXCEPT ![a.data][s] = [node_num |-> c, name |-> First]]
      <4>1. l = [g EXCEPT !.bitmap = a.bitmap, !.block = z, !.node[0] = y]
        BY <2>3, <2>6, <3>1 DEF add_directory_entry
      <4> HIDE DEF a, s, y, z
      <4>2. l.server = g.server
        BY <4>1
      <4> QED
        BY <1>9, <2>5, <4>2
    <3> QED
      BY <2>3, <2>6, <3>1 DEF add_directory_entry
  <2>8. l.bitmap = g.bitmap /\ l.node = g.node
    BY <2>7 DEF Exit
  <2>9. NoRoom(l, l.node[1])
    BY <2>4, <2>5, <2>7, <2>8 DEF NoRoom
  <2>10. k = Exit(l)
    BY <1>7, <2>9 DEF WriteFile
  <2>11. l \in Disk
    BY <1>6 DEF Outcome
  <2> QED
    BY <2>10, <2>11, Exits
<1> QED
  BY <1>8, <1>9

\* The calls begin in the invariant.
LEMMA CallsBegin ==
    ASSUME NODE_TABLE_BLOCKS > 1, CallsInit
    PROVE  CallsInv
<1>1. PICK u \in UrandomNode, e \in UrandomEntry :
          LET k == WriteFile(CreateNode(format_disk(u, e), 0, First, 1), 1, 1)
          IN  /\ bitmap = k.bitmap /\ node = k.node /\ block = k.block
              /\ server = k.server
  BY DEF CallsInit
<1>2. PICK k : k = WriteFile(CreateNode(format_disk(u, e), 0, First, 1), 1, 1)
  OBVIOUS
<1>3. bitmap = k.bitmap /\ node = k.node /\ block = k.block /\ server = k.server
  BY <1>1, <1>2
<1>4. Outcome(k) /\ (k.server = "up" => OneNamed(k))
  BY <1>2, InitDisk
<1>5. TypeOK
  <2>1. k \in Disk /\ bitmap_blocks = create_default_bitmap
    BY <1>4 DEF CallsInit, Outcome
  <2> QED
    BY <1>3, <2>1, Regions DEF TypeOK, Disk
<1>6. fs = k
  <2>1. k = [bitmap |-> k.bitmap, node |-> k.node, block |-> k.block, server |-> k.server]
    BY <1>4 DEF Outcome, Disk
  <2> QED
    BY <1>3, <2>1 DEF fs
<1>7. \A c \in Client : /\ client[c].pc = "idle" /\ client[c].call = NoCall
                        /\ fh[c] = NoHandle
                        /\ worker[c].pc = "none"
  BY DEF CallsInit, NoWorker
<1>8. \A c \in Client : ~Busy(c) /\ ~Awaits(c) /\ ~Executed(c)
  BY <1>7 DEF Busy, Pending, Awaits, Executed
<1>9. ASSUME Up
      PROVE  Orderly
  <2>1. k.server = "up"
    BY <1>3, <1>9 DEF Up
  <2>2. Inv(k, {}) /\ OneNamed(k)
    BY <1>4, <2>1 DEF Outcome
  <2>3. SameKind(k)
    <3> SUFFICES ASSUME NEW x \in Name, NEW n \in NodeNum, NEW m \in NodeNum,
                        Holds(k, 0, n, x), Holds(k, 0, m, x)
                 PROVE  k.node[n].state = k.node[m].state
      BY DEF SameKind
    <3>1. n = 1 /\ m = 1
      BY <2>2, HeldLive DEF OneNamed
    <3> QED
      BY <3>1
  <2>4. ExitTogether
    BY <1>7 DEF ExitTogether
  <2>5. NoClashes
    BY <1>8 DEF NoClashes
  <2>6. Handles
    BY <1>7 DEF Handles
  <2> QED
    BY <1>6, <1>8, <2>2, <2>3, <2>4, <2>5, <2>6 DEF Orderly
<1>10. Wants
  BY DEF CallsInit, Wants
<1>11. HandlesAreNodes /\ Openings
  BY <1>7, <1>8 DEF HandlesAreNodes, Openings
<1> QED
  BY <1>5, <1>9, <1>10, <1>11, ConnectionsStart DEF CallsInv

\* Every step keeps the invariant.
LEMMA CallsStep ==
    ASSUME WireFits, SAME_MOUNT, CallsInv, [CallsNext]_allVars
    PROVE  CallsInv'
<1>1. CASE CallsNext
  <2>1. PICK c \in Client :
            \/ \E h \in PathCalls \cup HandleCalls(c) : StartCall(c, h)
            \/ ClientStep(c)
            \/ WorkerStep(c)
            \/ Die(c)
    BY <1>1 DEF CallsNext
  <2>2. CASE \E h \in PathCalls \cup HandleCalls(c) : StartCall(c, h)
    BY <2>2, StartKeepsCalls
  <2>3. CASE ClientStep(c)
    BY <2>3, SendKeepsCalls, ReceiveKeepsCalls, LoseKeepsCalls DEF ClientStep
  <2>4. CASE WorkerStep(c)
    BY <2>4, HandshakeKeepsCalls, FunctionKeepsCalls, ExecuteKeepsCalls, AnswerKeepsCalls
    DEF WorkerStep
  <2>5. CASE Die(c)
    <3>1. Connections'
      BY <2>5, DieKeeps DEF CallsInv
    <3>2. client' = [d \in Client |->
              IF Together(c, d) THEN [client[d] EXCEPT !.pc = "exited"] ELSE client[d]]
      BY <2>5 DEF Die
    <3>3. UNCHANGED <<vars, birth, want, fh, worker, to_client>>
      BY <2>5 DEF Die
    <3> QED
      BY <3>1, <3>2, <3>3, ExitKeepsCalls
  <2> QED
    BY <2>1, <2>2, <2>3, <2>4, <2>5
<1>2. CASE UNCHANGED allVars
  <2>1. Connections'
    BY <1>2, StutterKeeps DEF CallsInv
  <2>2. UNCHANGED <<vars, birth, want, fh, worker, to_client, client>>
    BY <1>2 DEF allVars, callVars
  <2>3. UNCHANGED <<birth, want, fh>> /\ UNCHANGED vars
    BY <2>2
  <2>4. Up' /\ ExitTogether => ExitTogether'
    BY <2>2 DEF ExitTogether
  <2>5. \A c \in Client :
            /\ client'[c].call = client[c].call
            /\ Busy(c)' => Busy(c)
            /\ Awaits(c)' => Awaits(c)
            /\ Executed(c)' => Executed(c)
            /\ Executed(c)' => \A n \in NodeNum : Placed(c, n) => Placed(c, n)'
    BY <2>2 DEF Busy, Pending, Awaits, Executed, Placed
  <2> QED
    BY <2>1, <2>3, <2>4, <2>5, QuietKeeps
<1> QED
  BY <1>1, <1>2

\* CallsInv holds in every state of the calls of one mount.
LEMMA CallsInvariant ==
    ASSUME WireFits, SAME_MOUNT, NODE_TABLE_BLOCKS > 1
    PROVE  CallsSpec => []CallsInv
<1>1. CallsInit => CallsInv
  BY CallsBegin
<1>2. CallsInv /\ [CallsNext]_allVars => CallsInv'
  BY CallsStep
<1> QED
  BY <1>1, <1>2, PTL DEF CallsSpec

\* A handle leads to the file it was opened for as long as it is open,
\* whatever the clients of the mount remove, create and rename meanwhile: the
\* server keeps no table of open files (_sac_open answers with the number of
\* the node, sac_write and sac_read take it as it comes), so the kernel's order
\* of calls is all that protects it.
THEOREM HandlesKept ==
    ASSUME WireFits, SAME_MOUNT, NODE_TABLE_BLOCKS > 1
    PROVE  CallsSpec => []HandlesStayTrue
<1>1. CallsInv => HandlesStayTrue
  BY DEF CallsInv, Orderly, Handles, IsOpen, HandlesStayTrue, fs
<1> QED
  BY <1>1, CallsInvariant, PTL

\* The server executes the function the handler has asked for, with all its
\* arguments, after serialization, the stream of bytes and deserialization: a
\* handshake and a package in one recv, the short that counts a path's bytes
\* and the eight bytes of an offset of which the server reads four included.
THEOREM AskedIsExecuted ==
    ASSUME WireFits, SAME_MOUNT, NODE_TABLE_BLOCKS > 1
    PROVE  CallsSpec => []ExecutesWhatWasAsked
<1>1. CallsInv => ExecutesWhatWasAsked
  BY ConnectionsGiveAsked DEF CallsInv
<1> QED
  BY <1>1, CallsInvariant, PTL

\* Only a request that was never sent makes the server follow what nobody
\* has written.
LEMMA WildNeedsCut ==
    ASSUME WireFits, NODE_TABLE_BLOCKS <= DIR_ENTRIES,
           CallsInv, CallsNext, Up, server' = "wild"
    PROVE  \E c \in Client : client[c].pc = "exited" /\ worker[c].pc = "function"
<1>1. server # "wild"
  BY DEF Up
<1>2. PICK c \in Client :
          \/ \E h \in PathCalls \cup HandleCalls(c) : StartCall(c, h)
          \/ ClientStep(c) \/ ReceiveHandshake(c) \/ SendAnswer(c) \/ Die(c)
          \/ ReceiveFunction(c)
          \/ Execute(c)
  BY DEF CallsNext, WorkerStep
<1>3. ReceiveFunction(c) \/ Execute(c)
  BY <1>1, <1>2 DEF StartCall, ClientStep, SendPackage, ReceiveAnswer, LoseServer,
     ReceiveHandshake, SendAnswer, Die, vars
<1>4. CASE Execute(c)
  <2>1. PICK k : fs' = k /\ Outcome(k)
    BY <1>4, ExecutionIs
  <2>2. k.server = "wild"
    BY <2>1 DEF fs
  <2>3. NODE_TABLE_BLOCKS \in Int /\ DIR_ENTRIES \in Int
    BY LayoutAssumption
  <2> QED
    BY <2>1, <2>2, <2>3 DEF Outcome
<1>5. CASE ReceiveFunction(c)
  <2>1. Connection(c) /\ worker[c].pc = "function"
    BY <1>5 DEF CallsInv, Connections, ReceiveFunction
  <2>2. CASE ~Complete(to_server[c])
    BY <1>5, <2>1, <2>2 DEF ReceiveFunction
  <2>3. CASE Complete(to_server[c])
    <3>1. to_server[c] = Sent(c) /\ Made(client[c].call, fh[c])
      <4>1. ~Complete(<<>>)
        BY DEF Complete, HEAD_SIZE
      <4>2. to_server[c] \in {<<>>, Sent(c)} /\ Made(client[c].call, fh[c])
        BY <2>1 DEF Connection
      <4> QED
        BY <2>3, <4>1, <4>2
    <3>2. /\ Understood(Asked(c))
          /\ receive_package(Sent(c)) = Serialize(Asked(c))
      BY <3>1, SentIs DEF CallsInv
    <3>3. PICK f : f = deserialize(receive_package(to_server[c]))
      OBVIOUS
    <3>4. f.op = Asked(c).op
      BY <3>1, <3>2, <3>3 DEF Understood
    <3>5. Asked(c).op # "NULL"
      BY <3>1 DEF Asked, Request, Send, Made
    <3>6. f # NoFunction
      BY <3>4, <3>5 DEF NoFunction
    <3>7. UNCHANGED vars
      BY <1>5, <2>3, <3>3, <3>6 DEF ReceiveFunction
    <3> QED
      BY <1>1, <3>7 DEF vars
  <2> QED
    BY <2>2, <2>3
<1> QED
  BY <1>3, <1>4, <1>5

\* With no more nodes than entries in a block (disk.h: 32 of each), only a
\* request that was cut off before it was sent makes the server follow a
\* pointer or a number that nobody has written (recv's result is not looked
\* at, a package without a function is called as a null pointer): no other
\* request does, in whatever order the clients' calls come.
THEOREM OnlyCutsHurt ==
    ASSUME WireFits, SAME_MOUNT, NODE_TABLE_BLOCKS > 1, NODE_TABLE_BLOCKS <= DIR_ENTRIES
    PROVE  CallsSpec => OnlyACutConnectionHurts
<1>1. CallsInv /\ [CallsNext]_allVars =>
          [Up /\ server' = "wild" =>
              \E c \in Client : client[c].pc = "exited" /\ worker[c].pc = "function"]_allVars
  BY WildNeedsCut
<1> QED
  BY <1>1, CallsInvariant, PTL DEF CallsSpec, OnlyACutConnectionHurts

-----------------------------------------------------------------------------
(***************************************************************************)
(* Results: what the handlers return.                                      *)
(***************************************************************************)
\* What is on the way are bytes, and an answer that waits can be sent.
Bytewise ==
    \A c \in Client :
        /\ to_server[c] \in Seq(Byte) /\ to_client[c] \in Seq(Byte)
        /\ worker[c].pc = "answer" => Sound(worker[c].answer)

\* And the calls are counted.
Counted == Bytewise /\ calls \in 0 .. MAX_CALLS

\* The answer p makes c's handler return what it should.
Right(c, p) == Owes(c) => Handled(client[c].call, p) = want[c].returns

\* The answer that waits, the one on its way and the one taken are right.
Answering(c) ==
    /\ Up /\ worker[c].pc = "answer" => Right(c, worker[c].answer)
    /\ client[c].pc = "waiting" /\ worker[c].pc = "none"
          => Right(c, receive_package(to_client[c]))
    /\ client[c].pc = "idle" /\ Owes(c) => client[c].result = want[c].returns

\* The inductive invariant of the results.
Results ==
    /\ Up => Shallow(fs)
    /\ \A c \in Client : Answering(c)

\* What the server answers to the call it executes.
LEMMA ExecutionTells ==
    ASSUME WireFits, CallsInv, NEW c \in Client, Execute(c),
           NEW done, done = execute(worker[c].f)
    PROVE  /\ Sound(done.answer)
           /\ /\ Shallow(fs) /\ client[c].call.handler # "release"
              /\ client[c].call.handler = "read"
                    => node[fh[c].fd].indirect_pointer_block # 0
              => Tells(done, client[c].call, fh[c].fd)
           /\ done.k.server = "up" => Sizes(fs, done.k)
<1>1. PICK h, f, g : h = client[c].call /\ f = fh[c] /\ g = worker[c].f
  OBVIOUS
<1>2. Up
  BY ExecutionMeans
<1>3. Means(g, h, f)
  BY <1>1, ExecutionMeans
<1>4. /\ Inv(fs, {}) /\ SameKind(fs) /\ Ready(fs, h)
      /\ f # NoHandle => IsOpen(fs, birth, f.fd, f.birth)
  BY <1>1, ExecutionMeans
<1>5. /\ Sound(execute(g).answer)
      /\ /\ Shallow(fs) /\ h.handler # "release"
         /\ h.handler = "read" => node[f.fd].indirect_pointer_block # 0
         => Tells(execute(g), h, f.fd)
  BY <1>2, <1>3, <1>4, ExecuteTells
<1>6. PICK k : k = execute(g).k
  OBVIOUS
<1>7. k.server = "up" => Sizes(fs, k)
  BY <1>2, <1>3, <1>4, <1>6, ExecuteSizes
<1> QED
  BY <1>1, <1>5, <1>6, <1>7

\* One connection gets other bytes, or none does.
LEMMA BytesStay ==
    ASSUME Connections, Bytewise, NEW c \in Client, NEW s \in Seq(Byte), NEW t \in Seq(Byte),
           to_server' \in {to_server, [to_server EXCEPT ![c] = s]},
           to_client' \in {to_client, [to_client EXCEPT ![c] = t]},
           \A d \in Client : worker'[d].pc = "answer" => Sound(worker'[d].answer)
    PROVE  Bytewise'
<1>1. PICK S : Over(S)
  BY DEF Connections, Shapes
<1>2. ASSUME NEW d \in Client
      PROVE  to_server'[d] \in {to_server[d], s} /\ to_client'[d] \in {to_client[d], t}
  BY <1>1 DEF Over
<1> QED
  BY <1>2 DEF Bytewise

\* No worker but c's is changed, and c's has no answer to send.
LEMMA NoAnswers ==
    ASSUME Connections, Bytewise, NEW c \in Client, NEW w, w.pc # "answer",
           worker' \in {worker, [worker EXCEPT ![c] = w]}
    PROVE  \A d \in Client : worker'[d].pc = "answer" => Sound(worker'[d].answer)
<1>1. PICK S : Over(S)
  BY DEF Connections, Shapes
<1>2. \A d \in Client : worker'[d] \in {worker[d]} \/ worker'[d] = w
  BY <1>1 DEF Over
<1> QED
  BY <1>2 DEF Bytewise

\* Steps of the clients.
LEMMA ClientBytes ==
    ASSUME WireFits, CallsInv, Bytewise, NEW c \in Client,
           \/ \E h \in PathCalls \cup HandleCalls(c) : StartCall(c, h)
           \/ ClientStep(c)
           \/ Die(c)
    PROVE  Bytewise'
<1>1. Connections /\ HandlesAreNodes /\ <<>> \in Seq(Byte)
  BY DEF CallsInv
<1>2. CASE Die(c) \/ LoseServer(c)
  BY <1>2 DEF Die, LoseServer, Bytewise
<1>3. CASE \E h \in PathCalls \cup HandleCalls(c) : StartCall(c, h)
  <2>1. PICK w : w = [NoWorker EXCEPT !.pc = "handshake"]
    OBVIOUS
  <2>2. /\ worker' \in {worker, [worker EXCEPT ![c] = w]}
        /\ to_server' \in {to_server, [to_server EXCEPT ![c] = send_handshake]}
        /\ to_client' \in {to_client, [to_client EXCEPT ![c] = <<>>]}
    BY <1>3, <2>1 DEF StartCall
  <2>3. w.pc # "answer"
    BY <2>1 DEF NoWorker
  <2>4. \A d \in Client : worker'[d].pc = "answer" => Sound(worker'[d].answer)
    BY <1>1, <2>2, <2>3, NoAnswers
  <2>5. send_handshake \in Seq(Byte)
    BY HandshakeIs
  <2> QED
    BY <1>1, <2>2, <2>4, <2>5, BytesStay
<1>4. CASE SendPackage(c)
  <2>1. Made(client[c].call, fh[c])
    BY <1>1, <1>4 DEF Connections, Connection, SendPackage
  <2>2. PICK s : s = to_server[c] \o Sent(c)
    OBVIOUS
  <2>3. s \in Seq(Byte)
    <3>1. Sent(c) \in Seq(Byte)
      BY <1>1, <2>1, SentIs
    <3>2. to_server[c] \in Seq(Byte)
      BY DEF Bytewise
    <3> QED
      BY <2>2, <3>1, <3>2, Joined
  <2>4. to_server' = [to_server EXCEPT ![c] = s] /\ to_client' = to_client /\ worker' = worker
    BY <1>4, <2>2 DEF SendPackage, Sent, Asked
  <2>5. \A d \in Client : worker'[d].pc = "answer" => Sound(worker'[d].answer)
    BY <2>4 DEF Bytewise
  <2> QED
    BY <1>1, <2>3, <2>4, <2>5, BytesStay
<1>5. CASE ReceiveAnswer(c)
  <2>1. /\ to_server' = to_server /\ to_client' = [to_client EXCEPT ![c] = <<>>]
        /\ worker' = worker
    BY <1>5 DEF ReceiveAnswer
  <2>2. \A d \in Client : worker'[d].pc = "answer" => Sound(worker'[d].answer)
    BY <2>1 DEF Bytewise
  <2> QED
    BY <1>1, <2>1, <2>2, BytesStay
<1> QED
  BY <1>2, <1>3, <1>4, <1>5 DEF ClientStep

\* Steps of the connection threads.
LEMMA WorkerBytes ==
    ASSUME WireFits, CallsInv, Bytewise, NEW c \in Client, WorkerStep(c)
    PROVE  Bytewise'
<1>1. Connections /\ HandlesAreNodes /\ <<>> \in Seq(Byte)
  BY DEF CallsInv
<1>2. PICK S : Over(S)
  BY <1>1 DEF Connections, Shapes
<1>3. CASE ReceiveHandshake(c)
  <2>1. PICK s : s = Rest(to_server[c])
    OBVIOUS
  <2>2. s \in Seq(Byte)
    <3>1. /\ Made(client[c].call, fh[c])
          /\ to_server[c] \in {send_handshake, send_handshake \o Sent(c)}
      BY <1>1, <1>3 DEF Connections, Connection, ReceiveHandshake
    <3>2. Sent(c) \in Seq(Byte)
      BY <1>1, <3>1, SentIs
    <3>3. s \in {<<>>, Sent(c)}
      BY <2>1, <3>1, <3>2, HandshakeIs
    <3> QED
      BY <1>1, <3>2, <3>3
  <2>3. PICK p \in {"function", "none"} : worker' = [worker EXCEPT ![c].pc = p]
    BY <1>3 DEF ReceiveHandshake
  <2>4. \A d \in Client : worker'[d].pc = "answer" => Sound(worker'[d].answer)
    <3>1. worker'[c].pc = p /\ \A d \in Client \ {c} : worker'[d] = worker[d]
      BY <1>2, <2>3 DEF Over
    <3> QED
      BY <3>1 DEF Bytewise
  <2>5. to_server' = [to_server EXCEPT ![c] = s] /\ to_client' = to_client
    BY <1>3, <2>1 DEF ReceiveHandshake
  <2> QED
    BY <1>1, <2>2, <2>4, <2>5, BytesStay
<1>4. CASE ReceiveFunction(c)
  <2>1. PICK f : f = deserialize(receive_package(to_server[c]))
    OBVIOUS
  <2>2. worker' \in {worker, [worker EXCEPT ![c].pc = "execute", ![c].f = f]}
    BY <1>4, <2>1 DEF ReceiveFunction
  <2>3. \A d \in Client : worker'[d].pc = "answer" => Sound(worker'[d].answer)
    <3>1. /\ worker'[c].pc \in {worker[c].pc, "execute"}
          /\ \A d \in Client \ {c} : worker'[d] = worker[d]
      BY <1>2, <2>2 DEF Over
    <3>2. worker[c].pc = "function"
      BY <1>4 DEF ReceiveFunction
    <3> QED
      BY <3>1, <3>2 DEF Bytewise
  <2>4. to_server' = [to_server EXCEPT ![c] = <<>>] /\ to_client' = to_client
    BY <1>4 DEF ReceiveFunction
  <2> QED
    BY <1>1, <2>3, <2>4, BytesStay
<1>5. CASE Execute(c)
  <2>1. PICK done : done = execute(worker[c].f)
    OBVIOUS
  <2>2. worker' = [worker EXCEPT ![c].pc = "answer", ![c].answer = done.answer]
    BY <1>5, <2>1 DEF Execute
  <2>3. Sound(done.answer)
    BY <1>5, <2>1, ExecutionTells
  <2>4. \A d \in Client : worker'[d].pc = "answer" => Sound(worker'[d].answer)
    <3>1. worker'[c].answer = done.answer /\ \A d \in Client \ {c} : worker'[d] = worker[d]
      BY <1>2, <2>2 DEF Over
    <3> QED
      BY <2>3, <3>1 DEF Bytewise
  <2>5. to_server' = to_server /\ to_client' = to_client
    BY <1>5 DEF Execute
  <2> QED
    BY <1>1, <2>4, <2>5, BytesStay
<1>6. CASE SendAnswer(c)
  <2>1. PICK t : t = send_package(worker[c].answer)
    OBVIOUS
  <2>2. t \in Seq(Byte)
    <3>1. Sound(worker[c].answer)
      BY <1>6 DEF Bytewise, SendAnswer
    <3> QED
      BY <2>1, <3>1, AnswerSent
  <2>3. /\ worker' = [worker EXCEPT ![c] = NoWorker] /\ to_server' = to_server
        /\ to_client' = [to_client EXCEPT ![c] = t]
    BY <1>6, <2>1 DEF SendAnswer
  <2>4. \A d \in Client : worker'[d].pc = "answer" => Sound(worker'[d].answer)
    <3>1. PICK w : w = NoWorker
      OBVIOUS
    <3>2. w.pc # "answer"
      BY <3>1 DEF NoWorker
    <3> QED
      BY <1>1, <2>3, <3>1, <3>2, NoAnswers
  <2> QED
    BY <1>1, <2>2, <2>3, <2>4, BytesStay
<1> QED
  BY <1>3, <1>4, <1>5, <1>6 DEF WorkerStep

\* What makes the answers to a client stay right.
LEMMA AnsweringStays ==
    ASSUME NEW d \in Client, Answering(d), Up' => Up, client'[d].call = client[d].call,
           \/ client'[d].pc = "exited"
           \/ client'[d].pc = client[d].pc /\ client'[d].result = client[d].result,
           worker'[d] = worker[d], to_client'[d] = to_client[d], want'[d] = want[d]
    PROVE  Answering(d)'
BY DEF Answering, Right, Owes

\* A step that leaves the disk, unless it ends the server.
LEMMA RootStays ==
    ASSUME Results, UNCHANGED vars \/ ~Up'
    PROVE  Up' => Shallow(fs)'
<1> SUFFICES ASSUME Up'
             PROVE  Shallow(fs)'
  OBVIOUS
<1>1. fs' = fs /\ Up
  BY DEF vars, fs, Up
<1> QED
  BY <1>1 DEF Results

\* A process ends, or one of its threads does.
LEMMA EndedResults ==
    ASSUME Connections, Results, NEW c \in Client,
           \/ client' = [client EXCEPT ![c].pc = "exited"]
           \/ client' = [d \in Client |->
                 IF Together(c, d) THEN [client[d] EXCEPT !.pc = "exited"] ELSE client[d]],
           UNCHANGED <<vars, fh, to_client, worker, want>>
    PROVE  Results'
<1>1. PICK S : Over(S)
  BY DEF Connections, Shapes
<1>2. \A d \in Client :
         /\ client'[d].call = client[d].call /\ client'[d].result = client[d].result
         /\ client'[d].pc \in {client[d].pc, "exited"}
  BY <1>1 DEF Over
<1>3. UNCHANGED vars /\ UNCHANGED <<fh, to_client, worker, want>> /\ (Up' => Up)
  BY DEF vars, Up
<1>4. ASSUME NEW d \in Client
      PROVE  Answering(d)'
  BY <1>2, <1>3, AnsweringStays DEF Results
<1> QED
  BY <1>3, <1>4, RootStays DEF Results

\* A call that returns at once owes nothing.
LEMMA AtOnceResults ==
    ASSUME CallsInv, Results, NEW c \in Client, NEW h, StartCall(c, h), ReturnsAtOnce(h)
    PROVE  Results'
<1>1. PICK S : Over(S)
  BY DEF CallsInv, Connections, Shapes
<1>2. /\ client' = [client EXCEPT ![c] = [pc |-> "idle", call |-> h, result |-> Nothing]]
      /\ UNCHANGED <<to_client, worker>> /\ UNCHANGED <<vars, want, birth>>
  BY DEF StartCall
<1>3. client'[c].pc = "idle" /\ client'[c].call = h /\ worker[c].pc = "none"
  BY <1>1, <1>2, IdleQuiet DEF Over, StartCall
<1>4. Answering(c)'
  BY <1>2, <1>3 DEF Answering, Owes
<1>5. ASSUME NEW d \in Client \ {c}
      PROVE  Answering(d)'
  <2>1. client'[d] = client[d]
    BY <1>1, <1>2 DEF Over
  <2>2. UNCHANGED <<to_client, worker, want>> /\ (Up' => Up)
    BY <1>2 DEF vars, Up
  <2> QED
    BY <2>1, <2>2, AnsweringStays DEF Results
<1>6. UNCHANGED vars
  BY <1>2
<1> QED
  BY <1>4, <1>5, <1>6, RootStays DEF Results

\* A call that connects.
LEMMA ConnectResults ==
    ASSUME CallsInv, Results, NEW c \in Client, NEW h, StartCall(c, h),
           ~ReturnsAtOnce(h), Up
    PROVE  Results'
<1>1. PICK S : Over(S)
  BY DEF CallsInv, Connections, Shapes
<1>2. /\ client' = [client EXCEPT ![c].pc = "connected", ![c].call = h]
      /\ to_client' = [to_client EXCEPT ![c] = <<>>]
      /\ worker' = [worker EXCEPT ![c] = [NoWorker EXCEPT !.pc = "handshake"]]
      /\ UNCHANGED <<vars, want, birth>>
  BY DEF StartCall
<1>3. /\ client'[c].pc = "connected" /\ client'[c].call = h
      /\ worker'[c].pc = "handshake"
      /\ \A d \in Client \ {c} : client'[d] = client[d] /\ worker'[d] = worker[d]
                                 /\ to_client'[d] = to_client[d]
  BY <1>1, <1>2 DEF Over, NoWorker
<1>4. UNCHANGED vars /\ UNCHANGED want /\ Up' = Up
  BY <1>2 DEF vars, Up
<1>5. Answering(c)'
  BY <1>3 DEF Answering
<1>6. ASSUME NEW d \in Client \ {c}
      PROVE  Answering(d)'
  BY <1>3, <1>4, AnsweringStays DEF Results
<1> QED
  BY <1>4, <1>5, <1>6, RootStays DEF Results

\* SendPackage: the request is still to be executed.
LEMMA SendResults ==
    ASSUME CallsInv, Results, NEW c \in Client, SendPackage(c)
    PROVE  Results'
<1>1. PICK S : Over(S)
  BY DEF CallsInv, Connections, Shapes
<1>2. client' = [client EXCEPT ![c].pc = "waiting"] /\ client[c].pc = "connected"
  BY DEF SendPackage
<1>3. UNCHANGED vars /\ UNCHANGED <<fh, to_client, worker, want>> /\ (Up' => Up)
  BY DEF SendPackage, vars, Up
<1>4. /\ client'[c].pc = "waiting" /\ client'[c].call = client[c].call
      /\ \A d \in Client \ {c} : client'[d] = client[d]
  BY <1>1, <1>2 DEF Over
<1>5. worker[c].pc \in {"handshake", "function"}
  BY <1>2 DEF CallsInv, Connections, Connection
<1>6. Answering(c)'
  BY <1>3, <1>4, <1>5 DEF Answering
<1>7. ASSUME NEW d \in Client \ {c}
      PROVE  Answering(d)'
  BY <1>3, <1>4, AnsweringStays DEF Results
<1> QED
  BY <1>3, <1>6, <1>7, RootStays DEF Results

\* ReceiveAnswer.
LEMMA ReceiveResults ==
    ASSUME CallsInv, Results, NEW c \in Client, ReceiveAnswer(c)
    PROVE  Results'
<1>1. PICK S : Over(S)
  BY DEF CallsInv, Connections, Shapes
<1>2. worker[c].pc = "none" /\ client[c].pc = "waiting"
  <2>1. ~Complete(<<>>)
    BY DEF Complete, HEAD_SIZE
  <2> QED
    BY <2>1 DEF CallsInv, Connections, Connection, ReceiveAnswer
<1>3. PICK h, r :
         /\ h = client[c].call /\ r = Handled(h, receive_package(to_client[c]))
         /\ client' = [client EXCEPT ![c] = [pc |-> "idle", call |-> h, result |-> r]]
  BY DEF ReceiveAnswer
<1>4. UNCHANGED vars /\ UNCHANGED <<worker, want>> /\ (Up' => Up)
  BY DEF ReceiveAnswer, vars, Up
<1>5. /\ client'[c] = [pc |-> "idle", call |-> h, result |-> r]
      /\ \A d \in Client \ {c} : client'[d] = client[d] /\ to_client'[d] = to_client[d]
  BY <1>1, <1>3 DEF Over, ReceiveAnswer
<1>6. Right(c, receive_package(to_client[c]))
  BY <1>2 DEF Results, Answering
<1>7. Answering(c)'
  BY <1>2, <1>3, <1>4, <1>5, <1>6 DEF Answering, Right, Owes
<1>8. ASSUME NEW d \in Client \ {c}
      PROVE  Answering(d)'
  BY <1>4, <1>5, AnsweringStays DEF Results
<1> QED
  BY <1>4, <1>7, <1>8, RootStays DEF Results

\* ReceiveHandshake and ReceiveFunction: the request is still to be executed.
LEMMA TakenResults ==
    ASSUME WireFits, CallsInv, CallsInv', Results, NEW c \in Client,
           ReceiveHandshake(c) \/ ReceiveFunction(c)
    PROVE  Results'
<1>1. PICK S : Over(S)
  BY DEF CallsInv, Connections, Shapes
<1>2. worker[c].pc \in {"handshake", "function"} /\ client[c].pc # "idle" /\ Up
  BY DEF CallsInv, Connections, Connection, ReceiveHandshake, ReceiveFunction
<1>3. /\ worker'[c].pc \in {"function", "execute"}
      /\ \A d \in Client \ {c} : worker'[d] = worker[d]
  <2>1. CASE ReceiveHandshake(c)
    <3>1. receive_package(to_server[c]).message_id = 0
      <4>1. Made(client[c].call, fh[c]) /\ HandlesAreNodes
            /\ to_server[c] \in {send_handshake, send_handshake \o Sent(c)}
        BY <2>1 DEF CallsInv, Connections, Connection, ReceiveHandshake
      <4>2. Sent(c) \in Seq(Byte)
        BY <4>1, SentIs
      <4> QED
        BY <4>1, <4>2, HandshakeIs
    <3>2. worker' = [worker EXCEPT ![c].pc = "function"]
      BY <2>1, <3>1 DEF ReceiveHandshake, t_identifier_message
    <3> QED
      BY <1>1, <3>2 DEF Over
  <2>2. CASE ReceiveFunction(c)
    <3>1. PICK f : f = deserialize(receive_package(to_server[c]))
      OBVIOUS
    <3>2. worker' \in {worker, [worker EXCEPT ![c].pc = "execute", ![c].f = f]}
      BY <2>2, <3>1 DEF ReceiveFunction
    <3>3. worker[c].pc = "function"
      BY <2>2 DEF ReceiveFunction
    <3> QED
      BY <1>1, <3>2, <3>3 DEF Over
  <2> QED
    BY <2>1, <2>2
<1>4. UNCHANGED <<client, fh, to_client, want>> /\ (UNCHANGED vars \/ ~Up') /\ (Up' => Up)
  BY <1>2 DEF ReceiveHandshake, ReceiveFunction, Store, Wild, Up
<1>5. Answering(c)'
  BY <1>2, <1>3, <1>4 DEF Answering
<1>6. ASSUME NEW d \in Client \ {c}
      PROVE  Answering(d)'
  BY <1>3, <1>4, AnsweringStays DEF Results
<1> QED
  BY <1>4, <1>5, <1>6, RootStays DEF Results

\* SendAnswer: what is on its way shows the answer.
LEMMA AnswerResults ==
    ASSUME CallsInv, Bytewise, Results, NEW c \in Client, SendAnswer(c)
    PROVE  Results'
<1>1. PICK S : Over(S)
  BY DEF CallsInv, Connections, Shapes
<1>2. worker[c].pc = "answer" /\ client[c].pc # "idle" /\ Up
  BY DEF CallsInv, Connections, Connection, SendAnswer
<1>3. UNCHANGED vars /\ UNCHANGED <<client, fh, want>> /\ (Up' => Up)
  BY DEF SendAnswer, vars, Up
<1>4. PICK p : p = worker[c].answer
  OBVIOUS
<1>5. /\ worker'[c].pc = "none" /\ to_client'[c] = send_package(p)
      /\ \A d \in Client \ {c} : worker'[d] = worker[d] /\ to_client'[d] = to_client[d]
  BY <1>1, <1>4 DEF Over, SendAnswer, NoWorker
<1>6. Sound(p) /\ Right(c, p)
  BY <1>2, <1>4 DEF Bytewise, Results, Answering
<1>7. receive_package(send_package(p)) = p
  BY <1>6, AnswerSent
<1>8. Answering(c)'
  BY <1>2, <1>3, <1>5, <1>6, <1>7 DEF Answering, Right, Owes
<1>9. ASSUME NEW d \in Client \ {c}
      PROVE  Answering(d)'
  BY <1>3, <1>5, AnsweringStays DEF Results
<1> QED
  BY <1>3, <1>8, <1>9, RootStays DEF Results

\* Execute: the answer tells what the disk holds.
LEMMA ExecuteResults ==
    ASSUME WireFits, CallsInv, CallsInv', Results, NEW c \in Client, Execute(c)
    PROVE  Results'
<1>1. PICK S, T : Over(S) /\ want \in [Client -> T]
  BY DEF CallsInv, Connections, Shapes, Wants
<1>2. PICK l, a, x :
         /\ l = execute(worker[c].f).k /\ a = execute(worker[c].f).answer
         /\ x.returns = Wanted(client[c].call, fh[c].fd, l)
         /\ ~x.bare /\ client[c].call.handler = "read"
               => node[fh[c].fd].indirect_pointer_block # 0
         /\ fs' = l
         /\ l.server = "up" => Executing(fs, l, client[c].call)
         /\ worker' = [worker EXCEPT ![c].pc = "answer", ![c].answer = a]
         /\ want' = [want EXCEPT ![c] = x]
  BY ExecutionIs
<1>3. PICK k, h : k = fs /\ h = client[c].call
  OBVIOUS
<1>4. UNCHANGED <<client, fh, to_client>> /\ worker[c].pc = "execute" /\ Up
  BY DEF Execute
<1>5. client[c].pc # "idle"
  BY <1>4 DEF CallsInv, Connections, Connection
<1>6. /\ worker'[c].pc = "answer" /\ worker'[c].answer = a /\ want'[c] = x
      /\ \A d \in Client \ {c} : worker'[d] = worker[d] /\ want'[d] = want[d]
  BY <1>1, <1>2 DEF Over
<1>7. Up' <=> l.server = "up"
  BY <1>2 DEF Up, fs
<1>8. Shallow(fs)
  BY <1>4 DEF Results
<1>9. /\ h.handler # "release" /\ ~x.bare /\ l.server = "up" => Handled(h, a) = x.returns
      /\ l.server = "up" => Sizes(k, l)
  <2>1. PICK done : done = execute(worker[c].f)
    OBVIOUS
  <2>2. ~x.bare /\ h.handler = "read" => node[fh[c].fd].indirect_pointer_block # 0
    BY <1>2, <1>3
  <2>3. /\ h.handler # "release" /\ ~x.bare => Tells(done, h, fh[c].fd)
        /\ done.k.server = "up" => Sizes(fs, done.k)
    BY <1>3, <1>8, <2>1, <2>2, ExecutionTells
  <2> QED
    BY <1>2, <1>3, <2>1, <2>3 DEF Tells
<1>10. Answering(c)'
  BY <1>3, <1>4, <1>5, <1>6, <1>7, <1>9 DEF Answering, Right, Owes
<1>11. ASSUME NEW d \in Client \ {c}
       PROVE  Answering(d)'
  BY <1>4, <1>6, AnsweringStays DEF Results
<1>12. ASSUME Up'
       PROVE  Shallow(fs)'
  <2>1. Executing(k, l, h) /\ Sizes(k, l) /\ Shallow(k)
    BY <1>2, <1>3, <1>7, <1>8, <1>9, <1>12
  <2> QED
    BY <1>2, <2>1, ShallowStays
<1> QED
  BY <1>10, <1>11, <1>12 DEF Results

\* The calls begin with bytes and results as they should be.
LEMMA ResultsBegin ==
    ASSUME NODE_TABLE_BLOCKS > 1, CallsInit
    PROVE  Counted /\ Results
<1>1. PICK u \in UrandomNode, e \in UrandomEntry :
          LET k == WriteFile(CreateNode(format_disk(u, e), 0, First, 1), 1, 1)
          IN  /\ bitmap = k.bitmap /\ node = k.node /\ block = k.block
              /\ server = k.server
  BY DEF CallsInit
<1>2. PICK k : k = WriteFile(CreateNode(format_disk(u, e), 0, First, 1), 1, 1)
  OBVIOUS
<1>3. bitmap = k.bitmap /\ node = k.node /\ block = k.block /\ server = k.server
  BY <1>1, <1>2
<1>4. k \in Disk /\ (k.server = "up" => OneNamed(k) /\ k.node[1].state = 1)
  BY <1>2, InitDisk DEF Outcome
<1>5. fs = k
  <2>1. k = [bitmap |-> k.bitmap, node |-> k.node, block |-> k.block, server |-> k.server]
    BY <1>4 DEF Disk
  <2> QED
    BY <1>3, <2>1 DEF fs
<1>6. Up => Shallow(fs)
  BY <1>3, <1>4, <1>5 DEF Up, OneNamed, Shallow, IsDir
<1>7. \A c \in Client : /\ client[c].pc = "idle" /\ client[c].result = Nothing
                        /\ worker[c].pc = "none" /\ want[c].returns = Nothing
                        /\ to_server[c] = <<>> /\ to_client[c] = <<>>
  BY DEF CallsInit, NoWorker
<1>8. Bytewise
  <2>1. <<>> \in Seq(Byte)
    OBVIOUS
  <2> QED
    BY <1>7, <2>1 DEF Bytewise
<1>9. \A c \in Client : Answering(c)
  BY <1>7 DEF Answering
<1> QED
  BY <1>6, <1>8, <1>9, CallsAssumption DEF CallsInit, Counted, Results

\* Every step keeps the bytes.
LEMMA BytesStep ==
    ASSUME WireFits, CallsInv, Counted, [CallsNext]_allVars
    PROVE  Counted'
<1>1. CASE UNCHANGED allVars
  BY <1>1 DEF allVars, callVars, Bytewise, Counted
<1>2. CASE CallsNext
  <2>1. PICK c \in Client :
            \/ \E h \in PathCalls \cup HandleCalls(c) : StartCall(c, h)
            \/ ClientStep(c) \/ WorkerStep(c) \/ Die(c)
    BY <1>2 DEF CallsNext
  <2>2. Bytewise'
    BY <2>1, ClientBytes, WorkerBytes DEF Counted
  <2>3. calls' = calls \/ (calls < MAX_CALLS /\ calls' = calls + 1)
    BY <2>1 DEF StartCall, ClientStep, SendPackage, ReceiveAnswer, LoseServer, Die,
       WorkerStep, ReceiveHandshake, ReceiveFunction, Execute, SendAnswer
  <2>4. MAX_CALLS \in Nat
    BY CallsAssumption
  <2> QED
    BY <2>2, <2>3, <2>4 DEF Counted
<1> QED
  BY <1>1, <1>2

\* Every step keeps the results.
LEMMA ResultsStep ==
    ASSUME WireFits, CallsInv, CallsInv', Bytewise, Results,
           [CallsNext]_allVars
    PROVE  Results'
<1>1. CASE UNCHANGED allVars
  <2>1. UNCHANGED vars /\ UNCHANGED <<client, fh, to_client, worker, want>> /\ (Up' => Up)
    BY <1>1 DEF allVars, callVars, vars, Up
  <2>2. \A d \in Client : Answering(d)'
    BY <2>1, AnsweringStays DEF Results
  <2> QED
    BY <2>1, <2>2, RootStays DEF Results
<1>2. CASE CallsNext
  <2>1. PICK c \in Client :
            \/ \E h \in PathCalls \cup HandleCalls(c) : StartCall(c, h)
            \/ ClientStep(c) \/ WorkerStep(c) \/ Die(c)
    BY <1>2 DEF CallsNext
  <2>2. CASE \E h \in PathCalls \cup HandleCalls(c) : StartCall(c, h)
    <3>1. PICK h : StartCall(c, h)
      BY <2>2
    <3>2. CASE ReturnsAtOnce(h)
      BY <3>1, <3>2, AtOnceResults
    <3>3. CASE ~ReturnsAtOnce(h) /\ Up
      BY <3>1, <3>3, ConnectResults
    <3>4. CASE ~ReturnsAtOnce(h) /\ ~Up
      BY <3>1, <3>4, EndedResults DEF StartCall, CallsInv
    <3> QED
      BY <3>2, <3>3, <3>4
  <2>3. CASE LoseServer(c) \/ Die(c)
    BY <2>3, EndedResults DEF LoseServer, Die, CallsInv
  <2>4. CASE SendPackage(c) \/ ReceiveAnswer(c)
    BY <2>4, SendResults, ReceiveResults
  <2>5. CASE WorkerStep(c)
    BY <2>5, TakenResults, ExecuteResults, AnswerResults DEF WorkerStep
  <2> QED
    BY <2>1, <2>2, <2>3, <2>4, <2>5 DEF ClientStep
<1> QED
  BY <1>1, <1>2

\* Every variable keeps its type: what is on its way between client and
\* server are bytes, whatever the requests and their answers are.
THEOREM CallsTyped ==
    ASSUME WireFits, SAME_MOUNT, NODE_TABLE_BLOCKS > 1
    PROVE  CallsSpec => []CallsTypeOK
<1>1. CallsInit => Counted
  BY ResultsBegin
<1>2. CallsInv /\ Counted /\ [CallsNext]_allVars => Counted'
  BY BytesStep
<1>3. CallsInv /\ Counted => CallsTypeOK
  <2> SUFFICES ASSUME CallsInv, Counted
               PROVE  CallsTypeOK
    OBVIOUS
  <2>1. PICK S : Over(S)
    BY DEF CallsInv, Connections, Shapes
  <2>2. TypeOK /\ HandlesAreNodes
    BY DEF CallsInv
  <2> QED
    BY <2>1, <2>2 DEF Over, ClientPc, WorkerPc, HandlesAreNodes, Bytewise, Counted, CallsTypeOK
<1> QED
  BY <1>1, <1>2, <1>3, CallsInvariant, PTL DEF CallsSpec

\* What a handler returns to the kernel is what the disk held when its
\* request was executed, in whatever order the requests of the other clients
\* come in between and whatever the names and the sizes of the files are:
\* attributes, the names of the directory in their order, numbers of bytes
\* and errors come back through the package, the stream and the handler as
\* they were.  Left out are only the calls that owe nothing: release, those
\* _correct_path sends back without a request, and reads of a file that had
\* no block when they were executed.
THEOREM ReturnsTrue ==
    ASSUME WireFits, SAME_MOUNT, NODE_TABLE_BLOCKS > 1
    PROVE  CallsSpec => []ReturnsWhatTheDiskHas
<1>1. CallsInit => Counted /\ Results
  BY ResultsBegin
<1>2. CallsInv /\ Counted /\ [CallsNext]_allVars => Counted'
  BY BytesStep
<1>3. CallsInv /\ CallsInv' /\ Counted /\ Results /\ [CallsNext]_allVars => Results'
  BY ResultsStep DEF Counted
<1>4. Results => ReturnsWhatTheDiskHas
  BY DEF Results, Answering, ReturnsWhatTheDiskHas
<1> QED
  BY <1>1, <1>2, <1>3, <1>4, CallsInvariant, PTL DEF CallsSpec
=============================================================================
