------------------------------- MODULE Config -------------------------------
(***************************************************************************)
(* How SAFS is configured: config_map gathers options from a file and from *)
(* its callers, sys_parameters::init sets the global parameters from them, *)
(* and RAID_config::create reads the directories that make up the RAID     *)
(* (SAFS/libsafs/config_map.{h,cpp}, parameters.{h,cpp}, RAID_config.cpp). *)
(* A program configures SAFS again after it has stopped it.                *)
(*                                                                         *)
(* Data.  A line or an argument is an option, a comment, an empty line or  *)
(* one of another form.  A value is a number with a suffix or a name.      *)
(* Sizes are scaled: Kilo stands for 1024, IntBits for 32.                 *)
(***************************************************************************)
EXTENDS Integers, Sequences, FiniteSets, SequencesExt

CONSTANTS
  Programs,         \* sequences of calls
  RAIDFiles,        \* name -> lines of a root_conf file, or "dir"
  Dirs,             \* the directories that exist
  Cut,              \* path -> the path without its last character
  Kilo, IntBits, PageSize,
  HwNodes,          \* cpus.get_num_nodes()
  NULL

ConfigAssumption == IntBits \in Nat \ {0} /\ PageSize \in Nat \ {0} /\ HwNodes \in Nat

VARIABLES configs,  \* the config_map of the program, or NULL
          params,   \* the global sys_parameters
          raid,     \* the RAID_config, or NULL
          given,    \* what configs was made from
          inits,    \* what params were set from
          threw,    \* sys_parameters::init has thrown
          calls

vars == <<configs, params, raid, given, inits, threw, calls>>

-----------------------------------------------------------------------------
(* sys_parameters                                                            *)

Flags == {"virt_aio", "verify_content", "use_flusher", "cache_large_write", "merge_reqs",
          "writable", "huge_page", "busy_wait", "bind_io_thread"}

\* The order in which init looks for the options
Order ==
  <<"RAID_block_size", "SA_cell_size", "io_depth", "cache_type", "cache_size",
    "RAID_mapping", "virt_aio", "verify_content", "use_flusher", "cache_large_write",
    "vaio_print_freq", "numa_num_process_threads", "num_nodes", "merge_reqs",
    "max_obj_alloc_size", "writable", "max_num_pending_ios", "huge_page", "busy_wait",
    "num_io_threads", "bind_io_thread">>
Keys == Range(Order)

RAID_options == <<"RAID0", "RAID5", "HASH">>
cache_types == <<"tree", "associative", "hash-index", "cuckoo", "lru2q", "gclock">>

\* str2int_map::map
map(names, name) ==
  IF \E i \in DOMAIN names : names[i] = name
    THEN (CHOOSE i \in DOMAIN names : names[i] = name) - 1 ELSE -1

\* str2size, of a value <<number, suffix>>
str2size(v) ==
  v[1] * (CASE v[2] = "" -> 1 [] v[2] = "K" -> Kilo [] v[2] = "M" -> Kilo * Kilo
            [] v[2] = "G" -> Kilo * Kilo * Kilo)

\* The cast to int
ToInt(n) ==
  LET m == n % 2^IntBits IN IF m < 2^(IntBits - 1) THEN m ELSE m - 2^IntBits

\* The quotient of C, which is rounded towards 0
Quotient(n, d) == IF n < 0 THEN -((-n) \div d) ELSE n \div d

\* power2, without regard to the sign; 0 passes
power2(n) == n = 0 \/ \E k \in 0 .. IntBits : n \in {2^k, -(2^k)}

\* sys_parameters(); the numbers stand for the defaults, which nothing depends on
Default ==
  [k \in Keys |->
     CASE k \in Flags -> k = "writable"
       [] k = "cache_type" -> map(cache_types, "associative")
       [] k = "RAID_mapping" -> map(RAID_options, "RAID5")
       [] k = "num_io_threads" -> 0
       [] OTHER -> 1]

\* What an option sets its parameter to
Value(k, v) ==
  CASE k \in Flags -> TRUE
    [] k = "cache_type" -> map(cache_types, v)
    [] k = "RAID_mapping" -> map(RAID_options, v)
    [] k = "RAID_block_size" -> Quotient(ToInt(str2size(v)), PageSize)
    [] k \in {"SA_cell_size", "io_depth"} -> v[1]
    [] OTHER -> str2size(v)

\* A name that the tables lack, or a block size that is no power of two, ends init
Throws(k, x) ==
  \/ k \in {"cache_type", "RAID_mapping"} /\ x < 0
  \/ k = "RAID_block_size" /\ ~power2(x)

\* One option: a parameter whose option is missing keeps its value, but for num_nodes
InitOption(conf, s, k) ==
  IF s.threw THEN s
  ELSE IF k \in DOMAIN conf
    THEN [p |-> [s.p EXCEPT ![k] = Value(k, conf[k])], threw |-> Throws(k, Value(k, conf[k]))]
    ELSE [s EXCEPT !.p[k] = IF k = "num_nodes" THEN HwNodes ELSE @]

init(conf) ==
  FoldLeft(LAMBDA s, k : InitOption(conf, s, k), [p |-> params, threw |-> FALSE], Order)

-----------------------------------------------------------------------------
(* config_map                                                                *)

\* An option <<"option", key, value>> replaces an earlier one
insert(conf, o) ==
  [k \in DOMAIN conf \cup {o[2]} |-> IF k = o[2] THEN o[3] ELSE conf[k]]

Options(lines) == SelectSeq(lines, LAMBDA l : l[1] = "option")

\* read_config_file: comments and empty lines are skipped, any other line that is
\* no option makes the file unusable
read_config_file(lines) ==
  IF \E i \in DOMAIN lines : lines[i][1] = "other" THEN NULL
  ELSE FoldLeft(insert, <<>>, Options(lines))

-----------------------------------------------------------------------------
(* RAID_config                                                               *)

\* The path of a line <<"disk", node, path, newline>>: the last character is cut off
\* where the newline is expected
PathOf(l) == IF l[4] THEN l[3] ELSE Cut[l[3]]

\* A line stops the reading when it names no directory
Unusable(l) == l[1] # "comment" /\ (l[1] # "disk" \/ PathOf(l) \notin Dirs)

\* retrieve_data_files: the disks of a file, none when there is a line it cannot use
retrieve_data_files(lines) ==
  LET ls == SelectSeq(lines, LAMBDA l : l[1] = "disk")
  IN IF \E i \in DOMAIN lines : Unusable(lines[i]) THEN <<>>
     ELSE [i \in DOMAIN ls |-> [path |-> PathOf(ls[i]), disk |-> i - 1, node |-> ls[i][2]]]

\* RAID_config::create; a directory is a RAID of one disk
create_RAID(file, mapping, block) ==
  LET disks == IF file \notin DOMAIN RAIDFiles THEN <<>>
               ELSE IF RAIDFiles[file] = "dir" THEN <<[path |-> file, disk |-> 0, node |-> 0]>>
               ELSE retrieve_data_files(RAIDFiles[file])
  IN IF disks = <<>> THEN NULL
     ELSE [disks |-> disks, mapping |-> mapping, block |-> block, file |-> file]

\* get_node_ids, and the mapper of create_file_mapper(), NULL for a wrong option
get_node_ids(r) == {r.disks[i].node : i \in DOMAIN r.disks}
create_file_mapper(r) ==
  IF r.mapping + 1 \in DOMAIN RAID_options
    THEN [option |-> RAID_options[r.mapping + 1], disks |-> r.disks, block |-> r.block]
    ELSE NULL

-----------------------------------------------------------------------------
(* Calls                                                                     *)

Init ==
  /\ configs = NULL /\ params = Default /\ raid = NULL
  /\ given = <<>> /\ inits = <<>> /\ threw = FALSE
  /\ calls \in Programs

Calls(call) == calls # <<>> /\ Head(calls)[1] = call /\ calls' = Tail(calls)

\* config_map::create() and create(conf_file)
create ==
  /\ Calls("create")
  /\ configs' = <<>> /\ given' = <<>>
  /\ UNCHANGED <<params, raid, inits, threw>>

create_file ==
  /\ Calls("file")
  /\ configs' = read_config_file(Head(calls)[2])
  /\ given' = Options(Head(calls)[2])
  /\ UNCHANGED <<params, raid, inits, threw>>

\* add_options: arguments of another form are ignored
add_options ==
  /\ Calls("add") /\ configs # NULL
  /\ configs' = FoldLeft(insert, configs, Options(Head(calls)[2]))
  /\ given' = given \o Options(Head(calls)[2])
  /\ UNCHANGED <<params, raid, inits, threw>>

\* What init_io_system does with the options
init_io_system ==
  /\ Calls("init")
  /\ IF configs = NULL THEN UNCHANGED <<params, raid, inits, threw>>
     ELSE \E s \in {init(configs)} :
            /\ params' = s.p
            /\ inits' = Append(inits, given)
            /\ raid' = IF s.threw \/ "root_conf" \notin DOMAIN configs THEN NULL
                       ELSE create_RAID(configs["root_conf"], s.p["RAID_mapping"],
                                        s.p["RAID_block_size"])
            /\ threw' = (threw \/ s.threw)
  /\ UNCHANGED <<configs, given>>

Next == create \/ create_file \/ add_options \/ init_io_system

Spec == Init /\ [][Next]_vars

-----------------------------------------------------------------------------
(* Properties                                                                *)

\* The last of the options os that gives k a value
LastOf(k, os) ==
  LET is == {i \in DOMAIN os : os[i][2] = k}
  IN os[CHOOSE i \in is : \A j \in is : j <= i][3]
Gives(k, os) == \E i \in DOMAIN os : os[i][2] = k

\* As long as no init threw, a parameter has the value of the option that was given
\* for it last, over files, arguments and earlier configurations of the program, its
\* default when there was none; num_nodes goes back to the machine's.
ParamsExact ==
  ~threw => \A k \in Keys :
    LET ns == {n \in DOMAIN inits : Gives(k, inits[n])}
        last == CHOOSE n \in ns : \A m \in ns : m <= n
    IN params[k] = IF inits = <<>> THEN Default[k]
                   ELSE IF k = "num_nodes" /\ ~Gives(k, inits[Len(inits)]) THEN HwNodes
                   ELSE IF ns = {} THEN Default[k] ELSE Value(k, LastOf(k, inits[last]))

\* A RAID that SAFS uses has every disk its file names, in their order and numbered
\* from 0, and each is a directory: no line that cannot be used leaves a RAID with
\* fewer disks, on which every page would be somewhere else.  Each is the directory
\* that its line names, but for a last line without a newline, of which it is the
\* path without its last character.
RAIDWhole ==
  raid # NULL /\ RAIDFiles[raid.file] # "dir" =>
    LET named == SelectSeq(RAIDFiles[raid.file], LAMBDA l : l[1] # "comment")
    IN /\ Len(raid.disks) = Len(named)
       /\ get_node_ids(raid) = {named[i][2] : i \in DOMAIN named}
       /\ \A i \in DOMAIN named :
            /\ raid.disks[i].disk = i - 1 /\ raid.disks[i].node = named[i][2]
            /\ raid.disks[i].path \in Dirs
            /\ \/ raid.disks[i].path = named[i][3]
               \/ i = Len(named) /\ ~named[i][4] /\ raid.disks[i].path = Cut[named[i][3]]

\* Unless an init threw before, the RAID has a mapper, and a block of a power of two
\* of pages; but a size below a page or beyond an int may leave 0 or its negative.
MapperMade ==
  raid # NULL /\ ~threw => create_file_mapper(raid) # NULL /\ power2(raid.block)
=============================================================================
