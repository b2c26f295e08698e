------------------------------- MODULE Config -------------------------------
(***************************************************************************)
(* internal/config and its use in main: parseTree reads the configuration  *)
(* file line by line with a stack of open sections, Load lays what the     *)
(* tree says over Default(), tiers over the defaults section, Validate     *)
(* checks the result, and main either exits or hands the tiers' bucket     *)
(* configurations to the store.                                            *)
(*                                                                         *)
(* A line is its indentation, its key and its text; blank lines and        *)
(* comments have been dropped and quotes removed, which leaves a key with  *)
(* an empty text as the start of a section.  A node of the tree is known   *)
(* by its path.  What strconv and time make of a text is a parameter;      *)
(* durations are in milliseconds and fractions in percent.                 *)
(***************************************************************************)
EXTENDS Integers, Sequences, SequencesExt

CONSTANTS
    Texts,      \* non-empty texts of scalars
    Parse,      \* Parse[kind][text]: the value, or Nil if it is malformed
    Lines,      \* the lines a file may have
    MaxLines,   \* bound on the length of a file, for TLC
    Section,    \* the text of a line that opens a section
    Nil

ASSUME LinesAssumption ==
    \A l \in Lines : l.indent \in Nat /\ l.key \in STRING /\ l.text \in Texts \cup {Section}
ASSUME MaxLinesAssumption == MaxLines \in Nat
\* ParseInt's results are numbers.
ASSUME ParseAssumption == \A t \in Texts : Parse["int"][t] \in Int \cup {Nil}

VARIABLES
    file,       \* the lines read so far
    stack,      \* parseTree's stack of frames, its root first
    tree,       \* path -> text or Section
    boot,       \* "reading", "exited", "configured", or "started"
    cfg         \* Load's result once Validate has accepted it

configVars == <<file, stack, tree, boot, cfg>>

Root == [indent |-> -1, path |-> << >>]
-----------------------------------------------------------------------------
\* The sections that a line with this indentation leaves open: frames are popped
\* from the end of the stack until one is indented less, and the root stays.
BugOpen(indent) ==                      \* pops > only
    SubSeq(stack, 1, Min({n \in 1 .. Len(stack) :
                            \A i \in n + 1 .. Len(stack) : stack[i].indent > indent}))
Open(indent) ==
    SubSeq(stack, 1, Min({n \in 1 .. Len(stack) :
                            \A i \in n + 1 .. Len(stack) : stack[i].indent >= indent}))

\* parent[key] = child or val, which replaces what was below the key.
Assign(path, text) ==
    [p \in {q \in DOMAIN tree : ~IsPrefix(path, q)} \cup {path} |->
        IF p = path THEN text ELSE tree[p]]

\* One turn of parseTree's loop.
ReadLine(l) ==
    /\ boot = "reading" /\ Len(file) < MaxLines
    /\ LET open == Open(l.indent)
           path == Append(Last(open).path, l.key)
       IN /\ tree' = Assign(path, l.text)
          /\ stack' = IF l.text = Section
                      THEN Append(open, [indent |-> l.indent, path |-> path]) ELSE open
    /\ file' = Append(file, l)
    /\ UNCHANGED <<boot, cfg>>

\* A line without a colon, or a file that cannot be read: Load fails.
ReadError ==
    /\ boot = "reading"
    /\ boot' = "exited"
    /\ UNCHANGED <<file, stack, tree, cfg>>

\* How the accessor called for a key parses its text: str, i64 and i, f64, b, dur.
Kind(key) ==
    CASE key \in {"enabled", "trust_proxy_headers", "enable_ip_secondary_limit"} -> "bool"
      [] key \in {"refill_interval", "ip_refill_interval", "min_refill_interval",
                  "max_refill_interval", "window_duration"} -> "duration"
      [] key \in {"request_sample_rate", "default_weight"} -> "float"
      [] key \in {"identity_mode", "admin_token_hash", "cert_file", "client_ca_file",
                  "audit_file"} -> "string"
      [] OTHER -> "int"

\* The accessors: a key that is missing, a section or malformed has its default.
Get(section, key, default) ==
    LET p == Append(section, key)
        v == IF p \in DOMAIN tree /\ tree[p] # Section THEN Parse[Kind(key)][tree[p]] ELSE Nil
    IN IF v = Nil THEN default ELSE v

IsSection(p) == p \in DOMAIN tree /\ tree[p] = Section

\* Default(): the scalars by section, and the bucket of the default tier.  The
\* salt, the log level, key files and the unused key length are left out.
Default ==
    [server    |-> [client_port |-> 8080, admin_port |-> 9090],
     tls       |-> [cert_file |-> ""],
     admin_tls |-> [cert_file |-> "", client_ca_file |-> ""],
     limits    |-> [max_clients |-> 100000, min_refill_interval |-> 10,
                    max_refill_interval |-> 3600000],
     security  |-> [admin_token_hash |-> "", identity_mode |-> "api_key_with_ip_fallback",
                    trust_proxy_headers |-> FALSE, enable_ip_secondary_limit |-> FALSE,
                    ip_max_tokens |-> 1000, ip_refill_rate |-> 1000,
                    ip_refill_interval |-> 1000],
     logging   |-> [audit_file |-> "", request_sample_rate |-> 1],
     metrics   |-> [enabled |-> TRUE, port |-> 9100],
     fairness  |-> [enabled |-> FALSE, default_weight |-> 100],
     global    |-> [enabled |-> FALSE, max_tokens |-> 0, refill_rate |-> 0,
                    refill_interval |-> 0]]
DefaultBucket ==
    [max_tokens |-> 100, refill_rate |-> 10, refill_interval |-> 1000,
     tokens_per_request |-> 1, sliding_window |-> Nil]
NoWindow == [enabled |-> FALSE, window_duration |-> 0, max_requests |-> 0, buffer_size |-> 0]

SectionPath(s) == IF s \in {"tls", "admin_tls"} THEN <<"server", s>> ELSE <<s>>

\* parseBucketDefaults: a section's fields over base, a cost of at least 1.
ParseBucketDefaults(section, base) ==
    LET sw == Append(section, "sliding_window")
        swBase == IF base.sliding_window = Nil THEN NoWindow ELSE base.sliding_window
        cost == Get(section, "tokens_per_request", base.tokens_per_request)
    IN [f \in DOMAIN base |->
            CASE f = "sliding_window" ->
                    IF IsSection(sw) THEN [g \in DOMAIN swBase |-> Get(sw, g, swBase[g])]
                    ELSE base.sliding_window
              [] f = "tokens_per_request" -> IF cost <= 0 THEN 1 ELSE cost
              [] OTHER -> Get(section, f, base[f])]

\* Load, once the tree is complete; an absent file leaves the tree empty.
BugLoad ==                              \* tiers over the built-in defaults
    [scalars  |-> [s \in DOMAIN Default |->
                    [k \in DOMAIN Default[s] |-> Get(SectionPath(s), k, Default[s][k])]],
     Defaults |-> ParseBucketDefaults(<<"defaults">>, DefaultBucket),
     Tiers    |-> [t \in {p[2] : p \in {q \in DOMAIN tree : /\ Len(q) = 2 /\ q[1] = "tiers"
                                                            /\ IsSection(q)}} |->
                    ParseBucketDefaults(<<"tiers", t>>, DefaultBucket)]]
Load ==
    LET defaults == ParseBucketDefaults(<<"defaults">>, DefaultBucket)
        named == {p[2] : p \in {q \in DOMAIN tree : /\ Len(q) = 2 /\ q[1] = "tiers"
                                                    /\ IsSection(q)}}
    IN [scalars  |-> [s \in DOMAIN Default |->
                        [k \in DOMAIN Default[s] |-> Get(SectionPath(s), k, Default[s][k])]],
        Defaults |-> defaults,
        Tiers    |-> [t \in named |-> ParseBucketDefaults(<<"tiers", t>>, defaults)]]

Port(p) == 0 < p /\ p <= 65535

Validate(c) ==
    LET s == c.scalars IN
    /\ Port(s.server.client_port) /\ Port(s.server.admin_port)
    /\ s.server.client_port # s.server.admin_port
    /\ s.metrics.enabled =>
        /\ Port(s.metrics.port)
        /\ s.metrics.port \notin {s.server.client_port, s.server.admin_port}
    /\ c.Defaults.max_tokens > 0 /\ c.Defaults.refill_rate >= 0
    /\ s.limits.max_clients > 0
    /\ s.logging.request_sample_rate \in 0 .. 100
    /\ s.security.identity_mode \in {"ip", "api_key", "api_key_with_ip_fallback"}
    /\ s.fairness.enabled => s.fairness.default_weight > 0
    /\ s.global.enabled => s.global.max_tokens > 0

\* main: load and validate, or exit with status 1.
Configure ==
    /\ boot = "reading"
    /\ IF Validate(Load) THEN boot' = "configured" /\ cfg' = Load
       ELSE boot' = "exited" /\ UNCHANGED cfg
    /\ UNCHANGED <<file, stack, tree>>

\* toBucketConfig drops a window that is not enabled; main's tierDefaults takes
\* a tier named default over the defaults section.
ToBucketConfig(bd) ==
    [bd EXCEPT !.sliding_window =
        IF @ = Nil THEN Nil ELSE IF @.enabled THEN @ ELSE Nil]
TierDefaults ==
    [t \in DOMAIN cfg.Tiers \cup {"default"} |->
        ToBucketConfig(IF t \in DOMAIN cfg.Tiers THEN cfg.Tiers[t] ELSE cfg.Defaults)]

ConfigInit ==
    /\ file = << >> /\ stack = <<Root>> /\ tree = << >>
    /\ boot = "reading" /\ cfg = Nil

ConfigNext == (\E l \in Lines : ReadLine(l)) \/ ReadError \/ Configure
-----------------------------------------------------------------------------
(* What the lines of a file mean, defined without a stack.                 *)

\* The section that line i is in: the last one before it that is indented less
\* and that no line in between is out of; 0 for the root.
Enclosing(i) ==
    {j \in 1 .. i - 1 : /\ file[j].text = Section /\ file[j].indent < file[i].indent
                        /\ \A k \in j + 1 .. i - 1 : file[j].indent < file[k].indent}
Paths ==
    LET path[i \in 1 .. Len(file)] ==
        IF Enclosing(i) = {} THEN <<file[i].key>>
        ELSE Append(path[CHOOSE j \in Enclosing(i) : \A k \in Enclosing(i) : k <= j], file[i].key)
    IN path

\* The lines that no later line overwrites, by repeating their key or the key
\* of a section they are in.
Standing ==
    LET path == Paths
    IN {i \in DOMAIN file : \A j \in i + 1 .. Len(file) : ~IsPrefix(path[j], path[i])}

\* parseTree: the stack of sections finds the section every line is in, for
\* any indentation, and of repeated keys and sections the last one counts.
ParsedAsWritten ==
    LET path == Paths
        lines == Standing
    IN boot = "reading" =>
        /\ DOMAIN tree = {path[i] : i \in lines}
        /\ \A i \in lines : tree[path[i]] = file[i].text

\* What the standing lines say about a key of a section: a set of one value, or none.
Said(section, key) ==
    LET path == Paths
    IN {Parse[Kind(key)][file[i].text] :
            i \in {j \in Standing : path[j] = Append(section, key) /\ file[j].text # Section}} \ {Nil}

BucketFields == {"max_tokens", "refill_rate", "refill_interval"}

\* Load and main: wherever its sections are in the file, a tier the store
\* serves has in each field what its own section says, or else what the
\* defaults section says, or else the built-in value, and a positive cost;
\* a tier without a section of its own has the values Validate has seen.
TiersLayered ==
    boot = "configured" => \A t \in DOMAIN TierDefaults :
        /\ \A f \in BucketFields :
            LET own == Said(<<"tiers", t>>, f)
                common == Said(<<"defaults">>, f)
            IN TierDefaults[t][f] \in IF own # {} THEN own ELSE
                                      IF common # {} THEN common ELSE {DefaultBucket[f]}
        /\ TierDefaults[t].tokens_per_request > 0
        /\ (\A i \in Standing : Paths[i] # <<"tiers", t>>) =>
            TierDefaults[t].max_tokens > 0 /\ TierDefaults[t].refill_rate >= 0
=============================================================================
