-------------------------------- MODULE Edge --------------------------------
(***************************************************************************)
(* The first thing the hub does with a request: resolveRequest, which      *)
(* takes from the headers of a proxy it trusts who asks for which URL, and *)
(* the sliding window RateLimiter keyed on that address.                   *)
(*                                                                         *)
(* A byte has W bits, an IPv4 address 2 bytes and an IPv6 address 4; the   *)
(* text of addresses and headers is read already.  Time is in ticks.       *)
(***************************************************************************)
EXTENDS Integers, FiniteSets, SequencesExt

W == 2
Full == 2^W - 1

V4Address == [v6 : {FALSE}, bytes : {<<a, b>> : a, b \in 0 .. Full}]
V6Address == [v6 : {TRUE}, bytes : {<<p[1], p[2], a, b>> : p \in {<<0, Full>>, <<0, 0>>, <<1, Full>>},
                                                           a, b \in 0 .. Full}]
Address == V4Address \union V6Address

\* parseCidr: without "/" the whole address is the prefix.
Cidr(address, bits) == [v6 |-> address.v6, bytes |-> address.bytes, bits |-> bits]
Cidrs == {Cidr(a, n) : a \in V4Address, n \in 0 .. 2 * W}
         \union {Cidr(a, n) : a \in V6Address, n \in 0 .. 4 * W}

\* byte & mask, where the mask has the `take` high bits.
Keeps(byte, take) == byte \div 2^(W - take)

\* How many bits of its i-th byte a prefix of `bits` bits takes.
Take(bits, i) ==
    LET left == bits - W * (i - 1)
    IN  IF left <= 0 THEN 0 ELSE IF left >= W THEN W ELSE left

\* An IPv4 address stands for ::ffff:a.b.c.d where an IPv6 prefix is asked
\* for; the converse does not hold.
Promoted(address) == [v6 |-> TRUE, bytes |-> <<0, Full>> \o address.bytes]

SameBytes(address, cidr) ==
    \A i \in DOMAIN address.bytes :
        Keeps(address.bytes[i], Take(cidr.bits, i)) = Keeps(cidr.bytes[i], Take(cidr.bits, i))

InCidr(address, cidr) ==
    \/ address.v6 = cidr.v6 /\ SameBytes(address, cidr)
    \/ ~address.v6 /\ cidr.v6 /\ SameBytes(Promoted(address), cidr)

IsTrustedAddress(peer, trusted) == \E cidr \in trusted : InCidr(peer, cidr)

\* Reference: as numbers, address and prefix agree above the low bits.
Number(bytes) == FoldLeft(LAMBDA n, byte : n * 2^W + byte, 0, bytes)
Agree(address, cidr) ==
    LET low == 2^(W * Len(cidr.bytes) - cidr.bits)
    IN  Number(address.bytes) \div low = Number(cidr.bytes) \div low

MisplacedAddresses ==
    {p \in Address \X Cidrs :
        InCidr(p[1], p[2]) #
            IF p[1].v6 = p[2].v6 THEN Agree(p[1], p[2])
            ELSE p[2].v6 /\ Agree(Promoted(p[1]), p[2])}
-----------------------------------------------------------------------------
(* A request at the hub: the peer of the socket, the URL as it came, and   *)
(* the X-Forwarded-* headers, each a sequence of hops, <<>> when absent.   *)

Request(peer, proto, host, xff, xfp, xfh) ==
    [peer |-> peer, proto |-> proto, host |-> host, xff |-> xff, xfp |-> xfp, xfh |-> xfh]

FirstOr(hops, own) == IF hops = <<>> THEN own ELSE Head(hops)

Fields == {"client_ip", "proto", "host"}

\* What the connection of a request shows, whatever its headers say.
Observed(req) == [client_ip |-> req.peer, proto |-> req.proto, host |-> req.host]

\* What a request says of itself: its headers, where it has them.
Said(req) ==
    [client_ip |-> FirstOr(req.xff, req.peer),
     proto |-> FirstOr(req.xfp, req.proto), host |-> FirstOr(req.xfh, req.host)]

\* Mutant: the nearest hop is taken for the first.
ResolveLastHop(req, trusted) ==
    IF ~IsTrustedAddress(req.peer, trusted) THEN Observed(req)
    ELSE [Said(req) EXCEPT !.client_ip = FirstOr(Reverse(req.xff), req.peer)]

ResolveRequest(req, trusted) ==
    IF ~IsTrustedAddress(req.peer, trusted) THEN Observed(req) ELSE Said(req)

\* A reverse proxy: of each field it overwrites the header with what it was
\* asked, as nginx does with "proxy_set_header X-Forwarded-Proto $scheme", or
\* adds that to the header it got, as with $proxy_add_x_forwarded_for.  It
\* asks the next in http, under the name of that or, with keepsHost, under
\* the name it was asked for, which it then has no need to add.
Proxy(address, keepsHost, overwrites) ==
    [address |-> address, keepsHost |-> keepsHost, overwrites |-> overwrites]

Tell(proxy, field, hops, own) ==
    IF field \in proxy.overwrites THEN <<own>> ELSE Append(hops, own)

Forward(req, proxy) ==
    Request(proxy.address, "http", IF proxy.keepsHost THEN req.host ELSE "inside",
            Tell(proxy, "client_ip", req.xff, req.peer), Tell(proxy, "proto", req.xfp, req.proto),
            IF proxy.keepsHost /\ "host" \notin proxy.overwrites THEN req.xfh
            ELSE Tell(proxy, "host", req.xfh, req.host))

\* The client asks for https://public and sends the headers it likes.
Client == [v6 |-> FALSE, bytes |-> <<1, 0>>]
Claimed == [v6 |-> FALSE, bytes |-> <<1, 3>>]
ClientAsks == {Request(Client, "https", "public", xff, xfp, xfh) :
            xff \in {<<>>, <<Claimed>>}, xfp \in {<<>>, <<"http">>}, xfh \in {<<>>, <<"claimed">>}}

Links == {Proxy([v6 |-> FALSE, bytes |-> <<2, n>>], k, o) :
             n \in 0 .. 1, k \in BOOLEAN, o \in SUBSET Fields}
Chains == BoundedSeq(Links, 2)
Trusts == {{}} \union {{Cidr([v6 |-> FALSE, bytes |-> <<2, 0>>], n)} : n \in W .. 2 * W}

\* The request as it comes out of a chain of proxies.
Through(asked, chain) == FoldLeft(Forward, asked, chain)

\* Reference: the last proxy that overwrites the header of a field decides
\* what is believed of it, and that is what the connection to this proxy
\* shows; where none overwrites it, it is what the client says.
Believed(asked, chain, field) ==
    LET writers == {i \in DOMAIN chain : field \in chain[i].overwrites}
    IN  IF writers = {} THEN Said(asked)[field]
        ELSE Observed(Through(asked, SubSeq(chain, 1, Max(writers) - 1)))[field]

Misresolved ==
    {c \in ClientAsks \X Chains \X Trusts :
        LET req == Through(c[1], c[2])
        IN  \E field \in Fields :
                ResolveRequest(req, c[3])[field] #
                    IF IsTrustedAddress(req.peer, c[3]) THEN Believed(c[1], c[2], field)
                    ELSE Observed(req)[field]}
-----------------------------------------------------------------------------
(* RateLimiter: the times of the requests let through, by key.             *)

WindowMs == 2
NoBucket == <<>>
Limiter == [windows |-> [k \in {} |-> NoBucket], lastGc |-> 0, allowed |-> <<>>]

\* Trimmed from the front, up to the first time in the window.
InWindow(times, now) ==
    LET recent == {i \in DOMAIN times : times[i] >= now - WindowMs}
    IN  IF recent = {} THEN <<>> ELSE SubSeq(times, Min(recent), Len(times))

Gc(windows, now) ==
    LET live == {k \in DOMAIN windows : InWindow(windows[k], now) # <<>>}
    IN  [k \in live |-> InWindow(windows[k], now)]

GcDue(lastGc, now) == now - lastGc > WindowMs

\* check: what is allowed is remembered, and may set off the collection.
Check(limiter, key, limit, now) ==
    LET bucket == IF key \in DOMAIN limiter.windows THEN InWindow(limiter.windows[key], now) ELSE NoBucket
        put(b) == [k \in DOMAIN limiter.windows \union {key} |->
                      IF k = key THEN b ELSE limiter.windows[k]]
        due == GcDue(limiter.lastGc, now)
        told(ok) == Append(limiter.allowed, ok)
    IN  IF limit <= 0 THEN [limiter EXCEPT !.allowed = told(TRUE)]
        ELSE IF Len(bucket) >= limit
        THEN [windows |-> put(bucket), lastGc |-> limiter.lastGc, allowed |-> told(FALSE)]
        ELSE [windows |-> IF due THEN Gc(put(Append(bucket, now)), now) ELSE put(Append(bucket, now)),
              lastGc |-> IF due THEN now ELSE limiter.lastGc,
              allowed |-> told(TRUE)]

Traces ==
    {t \in BoundedSeq({"a", "b"} \X (0 .. 5), 4) :
        \A i \in 2 .. Len(t) : t[i - 1][2] <= t[i][2]}
Limits == 0 .. 2

After(t, limit) == FoldLeft(LAMBDA l, r : Check(l, r[1], limit, r[2]), Limiter, t)

\* Reference: a request is let through when fewer than `limit` of its key
\* were let through in the window that ends with it.
Misjudged ==
    {c \in Traces \X Limits :
        LET t == c[1]
            allowed == After(t, c[2]).allowed
            before(i) == {j \in 1 .. i - 1 : t[j][1] = t[i][1] /\ allowed[j] /\ t[j][2] >= t[i][2] - WindowMs}
        IN  c[2] > 0 /\ \E i \in DOMAIN t : allowed[i] # (Cardinality(before(i)) < c[2])}

\* Once a request is let through, no bucket is left whose requests are all
\* older than two windows.
Unforgotten ==
    {c \in Traces \X Limits :
        LET limiter == After(c[1], c[2])
        IN  /\ c[1] # <<>> /\ Last(limiter.allowed)
            /\ \E k \in DOMAIN limiter.windows :
                 \A i \in DOMAIN limiter.windows[k] :
                     limiter.windows[k][i] < Last(c[1])[2] - 2 * WindowMs}
=============================================================================
