------------------------------ MODULE Storage ------------------------------
(***************************************************************************)
(* The stores behind one interface, struct storage_backend of              *)
(* src/includes/store.h.  init_storage_backend (src/src/store.c) chooses   *)
(* the store once, by the prefix of the connection string.                 *)
(***************************************************************************)
EXTENDS FileStore, ObjectStore, ProxyStore

CONSTANT ConnectionString   \* by what they begin with, and what a path names

VARIABLE backend

storageVars == <<backend, fileVars, objectVars, proxyVars>>

(* A path must be that of a directory. *)
init_storage_backend(s) ==
    CASE s = "/directory" -> "file"
      [] s = "rados://" -> "rados"
      [] s = "memcached://" -> "memcached"
      [] s = "ro_http_proxy://" -> "ro_http_proxy"
      [] s = "composite:{" -> "composite"
      [] s = "null://" -> "null"
      [] OTHER -> "NULL"

StorageInit ==
    /\ \E s \in ConnectionString : backend = init_storage_backend(s)
    /\ FileInit /\ ObjectInit /\ ProxyInit

StorageNext ==
    /\ UNCHANGED backend
    /\ \/ backend = "file" /\ FileNext /\ UNCHANGED <<objectVars, proxyVars>>
       \/ backend = "memcached" /\ MemcachedNext /\ UNCHANGED <<fileVars, proxyVars>>
       \/ backend = "rados" /\ RadosNext /\ UNCHANGED <<fileVars, proxyVars>>
       \/ backend = "ro_http_proxy" /\ ProxyNext /\ UNCHANGED <<fileVars, objectVars>>
       \/ backend = "composite" /\ CompositeNext /\ UNCHANGED <<fileVars, objectVars>>

StorageSpec == StorageInit /\ [][StorageNext]_storageVars
=============================================================================
