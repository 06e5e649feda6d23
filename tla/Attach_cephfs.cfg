\* CephFS does not fence a node whose address it could not store
CONSTANTS Parts = {"fencing"}
          Requests = {p1, p2}
          Volumes = {v1, v2}
          Nodes = {w1, w2}
          NoNode = NoNode
          Scenarios <- FailingCephfs
          Names = {n1, n2}
          IDs = {i1, i2, i3}
          NoVolume = NoVolume
          Shared = Shared
          Hosts = {h1}
          MaxNSID = 2
          NvmeofScenarios <- AllNvmeof
          Disks = {d1, d2}
          NodeScenarios <- AllNodes
          s1 = s1
          s2 = s2
          NfsVols = {s1, s2}
          NoVol = NoVol
          NfsCalls = {c1, c2}
          NfsScenarios <- AllNfs
SPECIFICATION AttachSpec
SYMMETRY Symmetry
INVARIANT SingleWriter
CHECK_DEADLOCK FALSE
