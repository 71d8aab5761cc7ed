------------------------------ MODULE Storage ------------------------------
(***************************************************************************)
(* The ledger database on disk and the start of the process that opens it: *)
(* Storage.init migrates the schema in one exclusive transaction, then     *)
(* Ledger.init registers the genesis block and account in another.         *)
(* (RaiBlocksBasic/Storage.swift, DB.swift, Ledger.swift.)                 *)
(*                                                                         *)
(* The process may die between any two statements.  SQLite then restores   *)
(* the last committed database: txn is the working copy of the running     *)
(* transaction, db what is committed.                                      *)
(***************************************************************************)
CONSTANTS
  Network,   \* the networks a process can be configured for
  None

ASSUME NetworkAssumption == None \notin Network

VARIABLES
  phase,     \* how far the process has come with its start
  network,   \* the network it is configured for
  db,        \* the committed database
  txn        \* the working copy of the transaction under way

storageVars == <<phase, network, db, txn>>

Table == {"blocks", "accounts"}
Database == [info : Network \cup {None},         \* the row of table info
             tables : SUBSET Table,
             genesisBlocks : SUBSET Network,     \* networks whose genesis block is in
             genesisAccounts : SUBSET Network]
EmptyDatabase ==
  [info |-> None, tables |-> {}, genesisBlocks |-> {}, genesisAccounts |-> {}]

Starting == {"migrate", "createBlocks", "createAccounts", "genesisBlock", "genesisAccount"}

StorageTypeOK ==
  /\ phase \in Starting \cup {"down", "up"}
  /\ network \in Network \cup {None}
  /\ db \in Database
  /\ txn \in Database

StorageInit ==
  /\ phase = "down"
  /\ network = None
  /\ db = EmptyDatabase
  /\ txn = EmptyDatabase

----------------------------------------------------------------------------
\* One statement of a transaction.  (Faulty variant: outside a transaction.)

StatementCommits(w) == txn' = w /\ db' = w
Statement(w) == txn' = w /\ UNCHANGED db
Commit(w) == txn' = w /\ db' = w

\* The process ends, whatever it was doing.

Die == phase' = "down" /\ network' = None /\ txn' = db /\ UNCHANGED db

StartProcess ==
  /\ phase = "down"
  /\ \E n \in Network : network' = n
  /\ phase' = "migrate"
  /\ UNCHANGED <<db, txn>>

(***************************************************************************)
(* DB.migrateLedgerDB reads the info row: a database of another network is *)
(* refused, one of this network is left alone, and a new one gets the row  *)
(* and then its tables.                                                    *)
(***************************************************************************)
MigrateAnyNetwork ==
  /\ phase = "migrate"
  /\ \/ /\ txn.info = None
        /\ Statement([txn EXCEPT !.info = network])
        /\ phase' = "createBlocks"
        /\ UNCHANGED network
     \/ /\ txn.info # None
        /\ Commit(txn)
        /\ phase' = "genesisBlock"
        /\ UNCHANGED network

Migrate ==
  /\ phase = "migrate"
  /\ \/ /\ txn.info = None
        /\ Statement([txn EXCEPT !.info = network])
        /\ phase' = "createBlocks"
        /\ UNCHANGED network
     \/ /\ txn.info = network
        /\ Commit(txn)
        /\ phase' = "genesisBlock"
        /\ UNCHANGED network
     \/ /\ txn.info \notin {None, network}
        /\ Die

CreateBlocks ==
  /\ phase = "createBlocks"
  /\ Statement([txn EXCEPT !.tables = @ \cup {"blocks"}])
  /\ phase' = "createAccounts"
  /\ UNCHANGED network

CreateAccounts ==
  /\ phase = "createAccounts"
  /\ Commit([txn EXCEPT !.tables = @ \cup {"accounts"}])
  /\ phase' = "genesisBlock"
  /\ UNCHANGED network

(***************************************************************************)
(* Ledger.mayRegisterGenesis: each of block and account is put in unless   *)
(* it is there.  A missing table would end the process.                    *)
(***************************************************************************)
RegisterBlock ==
  /\ phase = "genesisBlock"
  /\ IF "blocks" \notin txn.tables
       THEN Die
       ELSE /\ Statement([txn EXCEPT !.genesisBlocks = @ \cup {network}])
            /\ phase' = "genesisAccount"
            /\ UNCHANGED network

RegisterAccount ==
  /\ phase = "genesisAccount"
  /\ IF "accounts" \notin txn.tables
       THEN Die
       ELSE /\ Commit([txn EXCEPT !.genesisAccounts = @ \cup {network}])
            /\ phase' = "up"
            /\ UNCHANGED network

Startup ==
  \/ StartProcess
  \/ Migrate
  \/ CreateBlocks
  \/ CreateAccounts
  \/ RegisterBlock
  \/ RegisterAccount

============================================================================
