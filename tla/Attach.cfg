\* Fencing, the NVMe-oF driver and the NFS driver
CONSTANTS Parts = {"fencing", "controller", "node", "nfs"}
          Requests = {p1, p2}
          Volumes = {v1, v2}
          Nodes = {w1, w2}
          NoNode = NoNode
          Scenarios <- AllFencing
          Names = {n1, n2}
          IDs = {i1, i2, i3}
          NoVolume = NoVolume
          Shared = Shared
          Hosts = {h1}
          MaxNSID = 2
          NvmeofScenarios <- AllNvmeof
          Disks = {d1, d2}
          NodeScenarios <- AllNodes
          s1 = s1
          s2 = s2
          NfsVols = {s1, s2}
          NoVol = NoVol
          NfsCalls = {c1, c2}
          NfsScenarios <- AllNfs
SPECIFICATION AttachSpec
SYMMETRY Symmetry
INVARIANTS AttachTypeOK VolumeReachable VolumeReleased SingleWriter NodeDetached
CHECK_DEADLOCK FALSE
