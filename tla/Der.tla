-------------------------------- MODULE Der --------------------------------
(***************************************************************************)
(* The DER encoder of services/tls.ts, and the little decoder that takes a *)
(* public key out of a stored CA certificate.  A byte is a number below    *)
(* 256; strings are sequences of bytes, positions start at 0 as there.     *)
(***************************************************************************)
EXTENDS Integers, Sequences

LOCAL INSTANCE SequencesExt

Byte == 0 .. 255

Concat(parts) == FlattenSeq(parts)

\* The digits of n in base b, most significant first; none for 0.
Digits[n \in Nat, b \in Nat] == IF n = 0 THEN <<>> ELSE Append(Digits[n \div b, b], n % b)

ValueOf(bytes, b) == FoldLeft(LAMBDA acc, x : acc * b + x, 0, bytes)

\* The short form is taken for 128 too.
LengthOctetsOff(n) ==
    IF n <= 128 THEN <<n>>
    ELSE LET bytes == Digits[n, 256] IN <<128 + Len(bytes)>> \o bytes

\* Lengths below 128 take one byte, others say how many bytes they take.
LengthOctets(n) ==
    IF n < 128 THEN <<n>>
    ELSE LET bytes == Digits[n, 256] IN <<128 + Len(bytes)>> \o bytes

Tlv(tag, content) == <<tag>> \o LengthOctets(Len(content)) \o content

\* The object that begins at a position: its tag, its content, its raw form and
\* where the next one begins.
ReadTlv(buf, at) ==
    LET first == buf[at + 2]
        count == IF first < 128 THEN 0 ELSE first - 128
        length == IF first < 128 THEN first ELSE ValueOf(SubSeq(buf, at + 3, at + 2 + count), 256)
        pos == at + 2 + count
    IN  [tag |-> buf[at + 1], content |-> SubSeq(buf, pos + 1, pos + length),
         raw |-> SubSeq(buf, at + 1, pos + length), next |-> pos + length]

\* One arc of an object identifier: base 128, all bytes but the last marked.
Arc(v) ==
    LET groups == IF v = 0 THEN <<0>> ELSE Digits[v, 128]
    IN  [i \in 1 .. Len(groups) |-> IF i = Len(groups) THEN groups[i] ELSE groups[i] + 128]

Oid(arcs) ==
    Tlv(6, <<40 * arcs[1] + arcs[2]>> \o Concat([i \in 1 .. Len(arcs) - 2 |-> Arc(arcs[i + 2])]))

\* INTEGER content: no leading zeros, a zero in front of a set high bit.
IntContent(bytes) ==
    LET significant == {i \in 1 .. Len(bytes) : bytes[i] # 0 \/ i = Len(bytes)}
        b == IF bytes = <<>> THEN <<>>
             ELSE SubSeq(bytes, CHOOSE i \in significant : \A j \in significant : i <= j, Len(bytes))
    IN  IF b = <<>> THEN <<0>> ELSE IF b[1] >= 128 THEN <<0>> \o b ELSE b

IntTag(bytes) == Tlv(2, IntContent(bytes))

BitString(data, unused) == Tlv(3, <<unused>> \o data)

Bit(bits, i) == (bits \div (2 ^ (7 - i))) % 2 = 1

\* Bits are counted from the left, and the unused ones on the right are dropped.
KeyUsage(bits) ==
    LET used == {i + 1 : i \in {x \in 0 .. 7 : Bit(bits, x)}}
        last == IF used = {} THEN 0 ELSE CHOOSE i \in used : \A j \in used : j <= i
    IN  BitString(<<bits>>, 8 - last)

\* UTCTime has two digits for the year.
UtcYear(year) == year % 100

Utf8String(text) == Tlv(12, text)

\* RDNSequence with O (2.5.4.10), when there is one, and CN (2.5.4.3).
Rdn(attribute, text) == Tlv(49, Tlv(48, Oid(<<2, 5, 4, attribute>>) \o Utf8String(text)))

Name(cn, org) == Tlv(48, (IF org = <<>> THEN <<>> ELSE Rdn(10, org)) \o Rdn(3, cn))

SigAlgorithm == Tlv(48, Oid(<<1, 2, 840, 10045, 4, 3, 2>>))

Extension(arcs, critical, value) ==
    Tlv(48, Oid(arcs) \o (IF critical THEN Tlv(1, <<255>>) ELSE <<>>) \o Tlv(4, value))

\* basicConstraints, keyUsage, the two key identifiers, and for leaves the name
\* and the purpose.
Extensions(spec) ==
    <<Extension(<<2, 5, 29, 19>>, TRUE, Tlv(48, IF spec.isCA THEN Tlv(1, <<255>>) ELSE <<>>)),
      Extension(<<2, 5, 29, 15>>, TRUE, KeyUsage(IF spec.isCA THEN 6 ELSE 128)),
      Extension(<<2, 5, 29, 14>>, FALSE, Tlv(4, spec.ski)),
      Extension(<<2, 5, 29, 35>>, FALSE, Tlv(48, Tlv(128, spec.aki)))>>
    \o (IF spec.sanDns = <<>> THEN <<>>
        ELSE <<Extension(<<2, 5, 29, 17>>, FALSE, Tlv(48, Tlv(130, spec.sanDns)))>>)
    \o (IF spec.ekuOid = <<>> THEN <<>>
        ELSE <<Extension(<<2, 5, 29, 37>>, FALSE, Tlv(48, Oid(spec.ekuOid)))>>)

BuildTbs(spec) ==
    Tlv(48, Concat(<<
        Tlv(160, IntTag(<<2>>)), IntTag(spec.serial), SigAlgorithm, spec.issuer,
        spec.validity, spec.subject, spec.spki, Tlv(163, Tlv(48, Concat(Extensions(spec))))>>))

\* A raw signature r||s as SEQUENCE { r INTEGER, s INTEGER }.
EcdsaRawToDer(raw) ==
    LET half == Len(raw) \div 2
    IN  Tlv(48, IntTag(SubSeq(raw, 1, half)) \o IntTag(SubSeq(raw, half + 1, Len(raw))))

CertificateDer(spec, signature) ==
    Tlv(48, BuildTbs(spec) \o SigAlgorithm \o BitString(EcdsaRawToDer(signature), 0))

\* A random serial of 16 bytes: positive, and without a leading zero byte.
Serial(random) ==
    LET masked == random[1] % 128
    IN  [random EXCEPT ![1] = IF masked = 0 THEN 1 ELSE masked]

\* The seventh field of tbsCertificate, as it is: six are skipped.
SkipFields[n \in Nat, at \in Nat, buf \in Seq(Byte)] ==
    IF n = 0 THEN at ELSE SkipFields[n - 1, ReadTlv(buf, at).next, buf]

SpkiFromCertDer(der) ==
    LET tbs == ReadTlv(ReadTlv(der, 0).content, 0).content
    IN  ReadTlv(tbs, SkipFields[6, 0, tbs]).raw

-----------------------------------------------------------------------------
(* What a reader of the certificates relies on, over bounded inputs.        *)

Bytes(n, x) == [i \in 1 .. n |-> x]

Lengths == {0, 1, 127, 128, 129, 255, 256, 257, 65536}

\* What is written is read back whole, wherever it stands.
TlvReadsBack ==
    \A n \in Lengths, tail \in {<<>>, <<5, 0>>} :
        LET encoded == Tlv(48, Bytes(n, 7))
            read == ReadTlv(<<5, 0>> \o encoded \o tail, 2)
        IN  read.tag = 48 /\ read.content = Bytes(n, 7) /\ read.raw = encoded
            /\ read.next = 2 + Len(encoded)

\* The arcs of an identifier can be told apart and have their values.
OidReadsBack ==
    \A v \in {0, 1, 127, 128, 16383, 16384, 113549, 2097151} :
        LET bytes == Arc(v)
        IN  /\ \A i \in 1 .. Len(bytes) : (bytes[i] >= 128) <=> i < Len(bytes)
            /\ ValueOf([i \in 1 .. Len(bytes) |-> bytes[i] % 128], 128) = v
            /\ Len(bytes) > 1 => bytes[1] # 128

Samples == {0, 1, 127, 128, 255}

\* An integer keeps its value, is not negative, and is as short as can be.
IntIsMinimal(bytes) ==
    LET content == IntContent(bytes)
    IN  /\ ValueOf(content, 256) = ValueOf(bytes, 256)
        /\ content[1] < 128
        /\ Len(content) > 1 => content[1] # 0 \/ content[2] >= 128

IntsReadBack ==
    \A bytes \in UNION {[1 .. n -> Samples] : n \in 0 .. 3} : IntIsMinimal(bytes)

\* Any 16 random bytes make a serial that its encoding does not lengthen.
SerialsFit ==
    \A b \in Byte : LET s == Serial(<<b>> \o Bytes(2, 0)) IN IntContent(s) = s

\* No bit is lost, and the last bit that counts is set.
KeyUsageReadsBack ==
    \A bits \in Byte \ {0} :
        LET content == ReadTlv(KeyUsage(bits), 0).content
        IN  content[2] = bits /\ Bit(bits, 7 - content[1])
            /\ \A i \in 0 .. 7 : i > 7 - content[1] => ~Bit(bits, i)

\* RFC 5280 reads years below 50 as 20xx and the others as 19xx.
YearRead(yy) == IF yy < 50 THEN 2000 + yy ELSE 1900 + yy
YearsReadBack == \A year \in 1950 .. 2049 : YearRead(UtcYear(year)) = year

\* The key of a CA comes back out of its certificate, however long its names and
\* its serial and whatever bytes its key has.
SpkiReadsBack ==
    \A cn \in {1, 64, 200}, org \in {0, 64}, b \in {1, 48, 128, 255}, isCA \in BOOLEAN :
        LET name == Name(Bytes(cn, 97), Bytes(org, 98))
            spec == [serial |-> Serial(Bytes(16, b)), issuer |-> name, subject |-> name,
                     validity |-> Tlv(48, Tlv(23, Bytes(13, 48)) \o Tlv(23, Bytes(13, 48))),
                     spki |-> Tlv(48, Bytes(89, b)), ski |-> Bytes(20, b), aki |-> Bytes(20, b),
                     isCA |-> isCA, sanDns |-> IF isCA THEN <<>> ELSE Bytes(cn, 97),
                     ekuOid |-> IF isCA THEN <<>> ELSE <<1, 3, 6, 1, 5, 5, 7, 3, 1>>]
        IN  SpkiFromCertDer(CertificateDer(spec, Bytes(64, b))) = spec.spki

EncodingReadsBack ==
    /\ TlvReadsBack /\ OidReadsBack /\ IntsReadBack /\ SerialsFit
    /\ KeyUsageReadsBack /\ YearsReadBack /\ SpkiReadsBack

=============================================================================
