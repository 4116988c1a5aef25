--------------------------- MODULE DirnodeReader ---------------------------
(***************************************************************************)
(* A client that loads a directory while another one changes and stores    *)
(* it: dirnode_from_buffer parses the main file, then __load_other_buckets *)
(* reads the bucket files one after the other.  Nothing is locked, so any  *)
(* steps of Dirnode may come between two reads, whole operations with      *)
(* their stores, failures and crashes too.                                 *)
(***************************************************************************)
EXTENDS Dirnode

VARIABLE reader

rvars == <<vars, reader>>

Unreadable == {NoName}

(* pc and main are the state of the load and the main file it has read,    *)
(* next is the bucket to read, entries what was read so far.  history:     *)
(* view is what a load at the moment of the first read would have given.   *)
NoReader == [pc |-> "idle", main |-> Torn, next |-> 0, entries |-> {}, view |-> {}]

ReaderInit == Init /\ reader = NoReader

(* __parse_dirnode_header, __parse_bucket_records and __load_bucket0: the  *)
(* records and the entries of the first bucket are in the main file.       *)
dirnode_from_buffer ==
    /\ reader.pc = "idle" /\ main # Torn
    /\ reader' = [pc |-> "buckets", main |-> main, next |-> 2, entries |-> main.bucket0,
                  view |-> IF Loads THEN Entries(dirnode_load) ELSE Unreadable]

(* One iteration of __load_other_buckets; a bucket that does not load, or  *)
(* not with the MAC of its record, is the end of it.                       *)
load_bucket ==
    LET rec == reader.main.records[reader.next] IN
    /\ reader.pc = "buckets" /\ reader.next <= Len(reader.main.records)
    /\ reader' = IF bucket_loads(rec)
                 THEN [reader EXCEPT !.next = @ + 1, !.entries = @ \union files[rec.uuid].dir_entries]
                 ELSE NoReader

Loaded ==
    /\ reader.pc = "buckets" /\ reader.next > Len(reader.main.records)
    /\ reader' = [reader EXCEPT !.pc = "done"]

Forget == reader.pc = "done" /\ reader' = NoReader

ReaderNext == \/ Next /\ UNCHANGED reader
              \/ (dirnode_from_buffer \/ load_bucket \/ Loaded \/ Forget) /\ UNCHANGED vars

ReaderSpec == ReaderInit /\ [][ReaderNext]_rvars

(* A load in several reads is as good as one in an instant: whatever is    *)
(* stored between its reads, a load that succeeds gives the directory that *)
(* its first read would have found, and one that would have found no       *)
(* directory does not succeed later.  The MACs in the main file are what   *)
(* makes it so.                                                            *)
LoadsAreAtomic == reader.pc = "done" => reader.entries = reader.view
=============================================================================
